---- MODULE Spec2Model ----
(***************************************************************************)
(* State-machine model of the VoiceGuide site backend: checkout orders,    *)
(* the Stripe webhook (payment confirmation), license fulfilment, direct   *)
(* purchases, partner commissions and the admin approval workflows.        *)
(*                                                                         *)
(* Money is held in euro cents (integers); Decimal.quantize(0.01,          *)
(* ROUND_HALF_UP) is Money2 on a rational number of cents.                 *)
(* NULL columns: 0 for ids, "" for strings, -1 for amounts.                *)
(***************************************************************************)
EXTENDS Integers, Sequences, FiniteSets, TLC

\* ------------------------------------------------------------------------
\* Bounds of the model
\* ------------------------------------------------------------------------
MaxOrders == 1
MaxSessions == 1
ToNumLicenses == 2
MaxPartnerRequests == 2
MaxPartners == 3
MaxTrialRequests == 2

\* ------------------------------------------------------------------------
\* Program constants
\* ------------------------------------------------------------------------
PARTNER_DISCOUNT_PCT == 5
STANDARD_TOUR_MINUTES == 240
AGORA_PRICE_CENTS_PER_1000_MIN == 99
CHECKOUT_DISCOUNT_RATE_PCT == 5

NoAmount == 0 - 1

\* ------------------------------------------------------------------------
\* Helpers
\* ------------------------------------------------------------------------
\* money2 / _money2: quantize to 0.01 with ROUND_HALF_UP, for a value of
\* num/den cents with num >= 0 and den > 0.
Money2(num, den) == (2 * num + den) \div (2 * den)

\* _eur_to_cents: money2 then * 100 to an integer; on a value held in
\* cents this is the rounding of the value to whole cents.
eur_to_cents(amount_cents) == Money2(amount_cents, 1)

estimate_agora_cost_for_single_license(max_guests) ==
    Money2(((max_guests + 1) * STANDARD_TOUR_MINUTES) * AGORA_PRICE_CENTS_PER_1000_MIN, 1000)

estimate_agora_cost_for_n_licenses(n, max_guests_per_license) ==
    Money2(estimate_agora_cost_for_single_license(max_guests_per_license) * n, 1)

\* ------------------------------------------------------------------------
\* The packages table (rows of models.packages.Package).  No handler of
\* the repository writes this table; its rows are deployment data.
\* ------------------------------------------------------------------------
Package(package_type, num_licenses, max_guests, price, is_active) ==
    [package_type |-> package_type, num_licenses |-> num_licenses,
     max_guests |-> max_guests, price |-> price, is_active |-> is_active]

Packages ==
    << Package("SINGLE", 1, 25, 1499, TRUE),
       Package("TO", ToNumLicenses, 25, 11900, TRUE),
       Package("SCHOOL", 1, 30, 2999, TRUE),
       Package("SINGLE", 1, 10, 799, FALSE) >>

\* Product codes after _normalize_product_code, as (prefix, number).
Products ==
    { [kind |-> "SINGLE", n |-> 25],
      [kind |-> "PACKAGE_TO", n |-> ToNumLicenses],
      [kind |-> "PACKAGE_SCHOOL", n |-> 1],
      [kind |-> "MUSEUM", n |-> 1] }

PartnerCodes == { "", "VGP1", "NOPE" }

\* ------------------------------------------------------------------------
\* State
\* ------------------------------------------------------------------------
VARIABLES
    env,        \* process environment read at import: which secrets are set
    orders,     \* table orders: sequence, id = index
    licenses,   \* table licenses: sequence, id = index
    payouts,    \* table partner_payouts: sequence, id = index
    partners,   \* table partners: sequence, id = index
    partner_requests, \* table partner_requests: sequence, id = index
    trial_requests,   \* table trial_requests: sequence, id = index
    sessions,   \* Stripe Checkout Sessions created by this backend
    accepted,   \* history: ids of orders with an accepted webhook delivery
    reqs,       \* concurrent webhook requests in flight (SpecConc only)
    last        \* observation of the most recent request

vars == << env, orders, licenses, payouts, partners, partner_requests, trial_requests,
          sessions, accepted, reqs, last >>

dbvars == << orders, licenses, payouts, partners >>

DB == [orders |-> orders, licenses |-> licenses, payouts |-> payouts, partners |-> partners]

\* ------------------------------------------------------------------------
\* Rows
\* ------------------------------------------------------------------------
NoTime == 0 - 1

\* A row of licenses as the paid paths insert it: duration_hours takes the
\* column default 4, issued_to_email and expires_at stay NULL.
License(code, license_type, max_guests, order_id) ==
    [code |-> code, license_type |-> license_type, max_guests |-> max_guests,
     order_id |-> order_id, duration_hours |-> 4, expires_at |-> NoTime,
     issued_to_email |-> ""]

PartnerPayout(partner_id, order_id, amount) ==
    [partner_id |-> partner_id, order_id |-> order_id, amount |-> amount, paid |-> FALSE]

Partner(email, partner_type, referral_code, commission_pct, is_active) ==
    [email |-> email, partner_type |-> partner_type, referral_code |-> referral_code,
     commission_pct |-> commission_pct, is_active |-> is_active]

\* The mapped class Order declares neither a stripe_session_id nor a
\* stripe_payment_intent_id column, so hasattr(Order, ...) is False.
OrderHasStripeSessionId == FALSE

OrderHasStripePaymentIntentId == FALSE

\* ------------------------------------------------------------------------
\* app/fulfillment_service.py
\* ------------------------------------------------------------------------
MaxOf(S) == IF S = {} THEN 0 ELSE CHOOSE m \in S : \A x \in S : x <= m

\* The largest number of licenses one package yields.
MaxUnits == MaxOf({ Packages[p].num_licenses : p \in DOMAIN Packages })

\* generate_license_code: "VG-LIC-" + 8 hex digits of a uuid4, taken to be
\* unique: the k-th code of a request is a code that no stored License
\* carries, and requests in flight together (draw 0, 1, ...) take their
\* codes from disjoint ranges.
generate_license_code(db, draw, k) ==
    MaxOf({ db.licenses[i].code : i \in DOMAIN db.licenses }) + draw * MaxUnits + k

get_active_partner_by_code(db, referral_code) ==
    IF referral_code = ""
    THEN 0
    ELSE LET m == { p \in DOMAIN db.partners :
                      /\ db.partners[p].referral_code = referral_code
                      /\ db.partners[p].is_active }
         IN IF m = {} THEN 0 ELSE CHOOSE p \in m : \A q \in m : p <= q

calc_partner_discount(subtotal, partner) ==
    IF partner = 0 THEN 0 ELSE Money2(subtotal * PARTNER_DISCOUNT_PCT, 100)

\* _load_package: 0 stands for the RuntimeError (no package_id, no row,
\* inactive row).
load_package(ord) ==
    IF ord.package_id = 0 THEN 0
    ELSE IF ord.package_id \notin DOMAIN Packages THEN 0
    ELSE IF ~Packages[ord.package_id].is_active THEN 0
    ELSE ord.package_id

\* order_type -> license_type; "" stands for "Unsupported order_type".
license_type_of(order_type) ==
    CASE order_type = "SINGLE" -> "SINGLE"
      [] order_type = "PACKAGE_TO" -> "TO"
      [] order_type = "PACKAGE_SCHOOL" -> "SCHOOL"
      [] OTHER -> ""

product_label_for_email(ord, pkg) ==
    CASE ord.order_type = "SINGLE" -> << "SINGLE", Packages[pkg].max_guests >>
      [] ord.order_type = "PACKAGE_TO" -> << "PACKAGE_TO", Packages[pkg].num_licenses >>
      [] ord.order_type = "PACKAGE_SCHOOL" -> << "PACKAGE_SCHOOL", Packages[pkg].num_licenses >>
      [] OTHER -> << ord.order_type, 0 >>

\* int(x or 1)
IntOr1(x) == IF x = 0 THEN 1 ELSE x

ExistingLicenses_unchecked(db, oid) == << >>

ExistingLicenses(db, oid) ==
    SelectSeq(db.licenses, LAMBDA l : l.order_id = oid)

\* existing[0].code of the rows ordered by id.
first_code_newest(existing) == existing[Len(existing)].code

first_code(existing) == existing[1].code

total_licenses_to_create_units_only(ord, pkg) ==
    LET n == IntOr1(ord.quantity)
    IN IF n < 0 THEN 0 ELSE n

total_licenses_to_create(ord, pkg) ==
    LET n == IntOr1(ord.quantity) * IntOr1(Packages[pkg].num_licenses)
    IN IF n < 0 THEN 0 ELSE n

\* What can go wrong inside fulfilment besides an AirLink call: payout is
\* "none", "create" (an exception while the PartnerPayout is computed,
\* built or added to the session) or "persist" (the INSERT of the
\* PartnerPayout fails when the session is flushed by db.commit());
\* email is TRUE when send_payment_received_email raises.
Fault(payout, email) == [payout |-> payout, email |-> email]

NoFault == Fault("none", FALSE)

Faults == { Fault(p, e) : p \in { "none", "create", "persist" }, e \in BOOLEAN }

\* An email attempt of _safe_send_payment_email; product <<>> is None,
\* license_code 0 is None; delivered is FALSE when the send raised.
EmailAttempt(order_id, product, license_code, delivered) ==
    [order_id |-> order_id, product |-> product, license_code |-> license_code,
     delivered |-> delivered]

safe_send_payment_email_unguarded(attempt, fault) ==
    [attempt |-> [attempt EXCEPT !.delivered = ~fault.email], raised |-> fault.email]

\* _safe_send_payment_email: the send in a try/except Exception that logs.
safe_send_payment_email(attempt, fault) ==
    [attempt |-> [attempt EXCEPT !.delivered = ~fault.email], raised |-> FALSE]

\* email_raised: the email wrapper let an exception out.
FulfilResult(outcome, calls, emails, codes, ord, new_payouts, new_licenses) ==
    [outcome |-> outcome, calls |-> calls, emails |-> emails, codes |-> codes,
     ord |-> ord, new_payouts |-> new_payouts, new_licenses |-> new_licenses,
     email_raised |-> FALSE]

\* The result of a call that sent (or tried to send) the email last.
AfterEmail(res, sent) ==
    [res EXCEPT !.emails = << sent.attempt >>, !.email_raised = sent.raised]

\* Lines 228-240: the payout of a referred order, built and added to the
\* session inside try/except Exception.
payout_for_order(db, partner, oid, total, fault) ==
    IF partner = 0 THEN [rows |-> << >>, raised |-> FALSE]
    ELSE IF fault.payout = "create" THEN [rows |-> << >>, raised |-> FALSE]
    ELSE [rows |-> << PartnerPayout(partner, oid,
                        Money2(total * db.partners[partner].commission_pct, 100)) >>,
          raised |-> FALSE]

refuses_fulfilment_never(ord) == FALSE

\* Lines 174-175: fulfilment is refused, by raising, for an order that is
\* not PAID.
refuses_fulfilment(ord) == ord.payment_status # "PAID"

\* fulfill_paid_order up to (not including) db.commit(): what the session
\* has read and holds pending.  ord is the session's Order object, failAt
\* the unit whose AirLink call fails (0: every call succeeds; a missing
\* AIRLINK_* variable is a failure of the first call).
fulfill_prepare(db, ord, oid, failAt, draw, fault) ==
    LET existing == ExistingLicenses(db, oid)
        partner == get_active_partner_by_code(db, ord.referral_code)
        pkg == load_package(ord)
        license_type == license_type_of(ord.order_type)
        raised(calls) == FulfilResult("raised", calls, << >>, << >>, ord, << >>, << >>)
        raised_pending(calls, o2, pp, ll) == FulfilResult("raised", calls, << >>, << >>, o2, pp, ll)
    IN
    IF refuses_fulfilment(ord) THEN raised(<< >>)
    ELSE IF existing # << >> THEN
        AfterEmail(FulfilResult("already_fulfilled", << >>, << >>,
                                [i \in DOMAIN existing |-> existing[i].code],
                                ord, << >>, << >>),
                   safe_send_payment_email(
                       EmailAttempt(oid, << >>, first_code(existing), TRUE), fault))
    ELSE IF pkg = 0 THEN raised(<< >>)
    ELSE IF license_type = "" THEN raised(<< >>)
    ELSE
        LET max_guests == Packages[pkg].max_guests
            units == IntOr1(ord.quantity)
            n == total_licenses_to_create(ord, pkg)
            subtotal == Money2(Packages[pkg].price * units, 1)
            discount == calc_partner_discount(subtotal, partner)
            total == Money2(subtotal - discount, 1)
            est_cost == estimate_agora_cost_for_n_licenses(n, max_guests)
            ord2 == [ord EXCEPT !.subtotal_amount = subtotal,
                                !.discount_amount = discount,
                                !.total_amount = total,
                                !.estimated_agora_cost = est_cost,
                                !.partner_id = IF partner # 0 THEN partner ELSE @]
            payout == payout_for_order(db, partner, oid, total, fault)
            new_payouts == payout.rows
            codes == [k \in 1..n |-> generate_license_code(db, draw, k)]
            new_licenses == [k \in 1..n |-> License(codes[k], license_type, max_guests, oid)]
        IN
        IF payout.raised THEN raised_pending(<< >>, ord2, << >>, << >>)
        ELSE IF failAt \in 1..n
        THEN raised_pending(SubSeq(codes, 1, failAt), ord2, new_payouts,
                            SubSeq(new_licenses, 1, failAt - 1))
        ELSE AfterEmail(FulfilResult("fulfilled", codes, << >>, codes,
                                     ord2, new_payouts, new_licenses),
                        safe_send_payment_email(
                            EmailAttempt(oid, product_label_for_email(ord, pkg),
                                         IF n > 0 THEN codes[1] ELSE 0, TRUE), fault))

\* db.add(order); db.commit() of fulfill_paid_order: the pending rows are
\* inserted and the columns the session assigned are written to the order.
fulfill_commit(db, oid, res) ==
    [db EXCEPT !.orders[oid] = [@ EXCEPT
                    !.subtotal_amount = res.ord.subtotal_amount,
                    !.discount_amount = res.ord.discount_amount,
                    !.total_amount = res.ord.total_amount,
                    !.estimated_agora_cost = res.ord.estimated_agora_cost,
                    !.partner_id = res.ord.partner_id],
               !.payouts = @ \o res.new_payouts,
               !.licenses = @ \o res.new_licenses]

get_db_close_flushing(committed, pending) ==
    [committed EXCEPT !.licenses = @ \o pending.new_licenses]

\* The request's session is closed when the request ends; what it never
\* committed is discarded.
get_db_close(committed, pending) == committed

\* db.commit() flushes the pending INSERTs and the UPDATE of the order in
\* one transaction: it raises, and nothing is written, when the INSERT of
\* the PartnerPayout fails.
commit_raises(res, fault) ==
    fault.payout = "persist" /\ res.new_payouts # << >>

\* Lines 262-274 for the pending result res: the commit, the email that
\* follows it and the return.  A result "raised" stands for the exception
\* that leaves the function.
fulfill_finish(db, oid, res, fault) ==
    LET raised(r) == [r EXCEPT !.outcome = "raised", !.codes = << >>]
    IN IF res.outcome = "fulfilled" /\ commit_raises(res, fault)
       THEN [res |-> [raised(res) EXCEPT !.emails = << >>, !.email_raised = FALSE],
             db |-> db]
       ELSE [res |-> IF res.email_raised THEN raised(res) ELSE res,
             db |-> IF res.outcome = "fulfilled" THEN fulfill_commit(db, oid, res) ELSE db]

\* fulfill_paid_order as one call: the result and the committed database
\* after it.
fulfill_paid_order(db, ord, oid, failAt, fault) ==
    fulfill_finish(db, oid, fulfill_prepare(db, ord, oid, failAt, 0, fault), fault)

\* ------------------------------------------------------------------------
\* routers/stripe_webhook.py
\* ------------------------------------------------------------------------
\* A webhook request.  sig: "missing" | "bad" | "ok"; order_id_raw is
\* metadata.order_id: 0 absent, -1 a non-numeric string, n the string "n";
\* session_id and payment_intent: 0 absent; amount_total: NoAmount when
\* absent or not an int.
Event(sig, type, order_id_raw, session_id, payment_intent, amount_total) ==
    [sig |-> sig, type |-> type, order_id_raw |-> order_id_raw,
     session_id |-> session_id, payment_intent |-> payment_intent,
     amount_total |-> amount_total]

NoEvent == Event("", "", 0, 0, 0, NoAmount)

Obs(op, http, resp, order_id, was_already_paid, fulfil, ev) ==
    [op |-> op, http |-> http, resp |-> resp, order_id |-> order_id,
     was_already_paid |-> was_already_paid, fulfil |-> fulfil,
     calls |-> fulfil.calls, emails |-> fulfil.emails, codes |-> fulfil.codes,
     outcome |-> fulfil.outcome, ev |-> ev, fault |-> NoFault, info |-> << >>]

NotInvoked == [outcome |-> "not_invoked", calls |-> << >>, emails |-> << >>, codes |-> << >>]

\* Steps 1-3 of the order lookup; 0 when no order is found.
lookup_order(db, ev) ==
    LET by_meta ==
            IF ev.order_id_raw > 0 /\ ev.order_id_raw \in DOMAIN db.orders
            THEN ev.order_id_raw ELSE 0
        by_session ==
            IF by_meta = 0 /\ ev.session_id # 0 /\ OrderHasStripeSessionId
            THEN LET m == { o \in DOMAIN db.orders :
                              db.orders[o].stripe_session_id = ev.session_id }
                 IN IF m = {} THEN 0 ELSE CHOOSE o \in m : \A q \in m : o <= q
            ELSE by_meta
        by_intent ==
            IF by_session = 0 /\ ev.payment_intent # 0 /\ OrderHasStripePaymentIntentId
            THEN LET m == { o \in DOMAIN db.orders :
                              db.orders[o].stripe_payment_intent_id = ev.payment_intent }
                 IN IF m = {} THEN 0 ELSE CHOOSE o \in m : \A q \in m : o <= q
            ELSE by_session
    IN by_intent

amount_ok_unchecked(ord, ev) == TRUE

\* The guard-rail on the amount: TRUE when the delivery is let through.
amount_ok(ord, ev) ==
    IF ev.amount_total # NoAmount
    THEN ev.amount_total = eur_to_cents(ord.total_amount)
    ELSE TRUE

mark_paid_method_only(ord) ==
    [ord EXCEPT !.payment_method = "STRIPE"]

\* The order as committed by the "if not was_paid" block.
mark_paid(ord) ==
    [ord EXCEPT !.payment_method = "STRIPE", !.payment_status = "PAID"]

\* Lines 53-71: the configuration check and stripe.Webhook.construct_event.
\* 0 when the event is verified, else the HTTP status of the error.
verify_signature_header_only(e, ev) ==
    IF ~e.STRIPE_WEBHOOK_SECRET THEN 500
    ELSE IF ev.sig = "missing" THEN 400
    ELSE 0

verify_signature(e, ev) ==
    IF ~e.STRIPE_WEBHOOK_SECRET THEN 500
    ELSE IF ev.sig = "missing" THEN 400
    ELSE IF ev.sig # "ok" THEN 400
    ELSE 0

\* Lines 53-147: everything before the order is touched.  accepted is TRUE
\* when the handler goes on to mark the order PAID and to fulfil it.
intake_of(db, ev, verified, oid) ==
    LET r(http, resp, o, acc) ==
            [http |-> http, resp |-> resp, oid |-> o, accepted |-> acc]
    IN
    IF verified = 500 THEN r(500, "not_configured", 0, FALSE)
    ELSE IF verified # 0 THEN
        r(400, IF ev.sig = "missing" THEN "missing_signature" ELSE "invalid_signature",
          0, FALSE)
    ELSE IF ev.type # "checkout.session.completed" THEN r(200, "ignored_event_type", 0, FALSE)
    ELSE IF oid = 0 THEN r(200, "ignored_order_not_found", 0, FALSE)
    ELSE IF ~amount_ok(db.orders[oid], ev) THEN r(200, "ignored_amount_mismatch", oid, FALSE)
    ELSE r(200, "PAID", oid, TRUE)

webhook_intake(e, db, ev) ==
    intake_of(db, ev, verify_signature(e, ev), lookup_order(db, ev))

NotInvokedResult(ord) == FulfilResult("not_invoked", << >>, << >>, << >>, ord, << >>, << >>)

\* Lines 176-181: "Fulfillment ALWAYS (idempotent)".
invoke_fulfilment_first_only(db, oid, was_paid, failAt, fault) ==
    IF was_paid
    THEN [res |-> NotInvokedResult(db.orders[oid]), db |-> db]
    ELSE fulfill_paid_order(db, db.orders[oid], oid, failAt, fault)

invoke_fulfilment(db, oid, was_paid, failAt, fault) ==
    fulfill_paid_order(db, db.orders[oid], oid, failAt, fault)

fulfilment_error_status_propagated(res) == IF res.outcome = "raised" THEN 500 ELSE 200

\* Lines 176-191: the try/except Exception around fulfilment logs and goes
\* on to the success response.
fulfilment_error_status(res) == 200

ObsOfResult(res) ==
    [outcome |-> res.outcome, calls |-> res.calls, emails |-> res.emails, codes |-> res.codes]

\* Lines 176-191 for the result f of the fulfilment call: the database the
\* request leaves behind and the response.
webhook_response(oid, was_paid, ev, fault, f, http) ==
    [db |-> IF f.res.outcome = "raised" THEN get_db_close(f.db, f.res) ELSE f.db,
     obs |-> [Obs("webhook", http, IF http = 200 THEN "PAID" ELSE "error",
                  oid, was_paid, ObsOfResult(f.res), ev)
              EXCEPT !.fault = fault]]

\* Lines 149-191 for an accepted delivery: the order is committed PAID when
\* it was not, then fulfilment is invoked on the committed database db1.
handle_accepted(db, db1, oid, was_paid, ev, failAt, fault) ==
    webhook_response(oid, was_paid, ev, fault,
                     invoke_fulfilment(db1, oid, was_paid, failAt, fault),
                     fulfilment_error_status(
                         invoke_fulfilment(db1, oid, was_paid, failAt, fault).res))

handle_intake(db, ev, failAt, fault, i) ==
    IF ~i.accepted
    THEN [db |-> db, obs |-> Obs("webhook", i.http, i.resp, i.oid, FALSE, NotInvoked, ev)]
    ELSE handle_accepted(db,
                         IF db.orders[i.oid].payment_status = "PAID" THEN db
                         ELSE [db EXCEPT !.orders[i.oid] = mark_paid(@)],
                         i.oid, db.orders[i.oid].payment_status = "PAID",
                         ev, failAt, fault)

\* _handle_stripe_webhook for one request handled alone: the committed
\* database after the request and what the request answered and did.
handle_stripe_webhook(e, db, ev, failAt, fault) ==
    handle_intake(db, ev, failAt, fault, webhook_intake(e, db, ev))

\* ------------------------------------------------------------------------
\* routers/auth_admin.py
\* ------------------------------------------------------------------------
\* Bearer tokens: present is FALSE when the Authorization header is absent,
\* valid is FALSE when jwt.decode fails (decode_access_token gives None),
\* sub is the subject: kind "admin" for "admin:<id>", "partner" for "<id>".
Token(present, valid, kind, id) ==
    [present |-> present, valid |-> valid, kind |-> kind, id |-> id]

Tokens ==
    { Token(FALSE, FALSE, "", 0),
      Token(TRUE, FALSE, "", 0),
      Token(TRUE, TRUE, "partner", 1),
      Token(TRUE, TRUE, "admin", 1),
      Token(TRUE, TRUE, "admin", 2) }

\* Rows of the admins table (ids).
Admins == { 1 }

\* get_current_admin: 0 when the admin is returned, else the HTTP status.
get_current_admin(token) ==
    IF ~token.present THEN 403
    ELSE IF ~token.valid THEN 403
    ELSE IF token.kind # "admin" THEN 403
    ELSE IF token.id \notin Admins THEN 401
    ELSE 0

\* ------------------------------------------------------------------------
\* routers/checkout.py
\* ------------------------------------------------------------------------
FirstOf(m) == IF m = {} THEN 0 ELSE CHOOSE p \in m : \A q \in m : p <= q

resolve_single_package_id(max_guests) ==
    FirstOf({ p \in DOMAIN Packages :
                /\ Packages[p].package_type = "SINGLE"
                /\ Packages[p].num_licenses = 1
                /\ Packages[p].is_active
                /\ Packages[p].max_guests = max_guests })

resolve_package_id_by_type_and_num_licenses(package_type, num_licenses) ==
    FirstOf({ p \in DOMAIN Packages :
                /\ Packages[p].package_type = package_type
                /\ Packages[p].num_licenses = num_licenses
                /\ Packages[p].is_active })

\* _parse_product_to_order_fields: http 0 on success.
parse_product_to_order_fields(product) ==
    LET r(http, order_type, package_id) ==
            [http |-> http, order_type |-> order_type, package_id |-> package_id,
             quantity |-> 1]
        found(order_type, package_id) ==
            IF package_id = 0 THEN r(500, "", 0) ELSE r(0, order_type, package_id)
    IN CASE product.kind = "SINGLE" ->
              found("SINGLE", resolve_single_package_id(product.n))
         [] product.kind = "PACKAGE_TO" ->
              found("PACKAGE_TO", resolve_package_id_by_type_and_num_licenses("TO", product.n))
         [] product.kind = "PACKAGE_SCHOOL" ->
              found("PACKAGE_SCHOOL",
                    resolve_package_id_by_type_and_num_licenses("SCHOOL", product.n))
         [] OTHER -> r(400, "", 0)

\* What _calc_amounts_from_db would be if the 5% were taken off every order.
calc_amounts_from_db_always_discounted(package_id, units, partner_code) ==
    IF package_id \notin DOMAIN Packages \/ ~Packages[package_id].is_active
    THEN [http |-> 500, subtotal |-> 0, discount |-> 0, total |-> 0]
    ELSE LET subtotal == Money2(Packages[package_id].price * units, 1)
             discount == Money2(subtotal * CHECKOUT_DISCOUNT_RATE_PCT, 100)
             total == Money2(subtotal - discount, 1)
         IN [http |-> IF total <= 0 THEN 400 ELSE 0,
             subtotal |-> subtotal, discount |-> discount, total |-> total]

\* _calc_amounts_from_db: http 0 on success.
calc_amounts_from_db(package_id, units, partner_code) ==
    IF package_id \notin DOMAIN Packages \/ ~Packages[package_id].is_active
    THEN [http |-> 500, subtotal |-> 0, discount |-> 0, total |-> 0]
    ELSE LET subtotal == Money2(Packages[package_id].price * units, 1)
             discount_rate == IF partner_code # "" THEN CHECKOUT_DISCOUNT_RATE_PCT ELSE 0
             discount == Money2(subtotal * discount_rate, 100)
             total == Money2(subtotal - discount, 1)
         IN [http |-> IF total <= 0 THEN 400 ELSE 0,
             subtotal |-> subtotal, discount |-> discount, total |-> total]

Order(order_type, package_id, quantity, subtotal, discount, total, referral_code) ==
    [order_type |-> order_type, package_id |-> package_id, quantity |-> quantity,
     subtotal_amount |-> subtotal, discount_amount |-> discount, total_amount |-> total,
     estimated_agora_cost |-> NoAmount,
     payment_method |-> "STRIPE", payment_status |-> "PENDING",
     partner_id |-> 0, referral_code |-> referral_code]

Plain(op, http, resp, order_id) ==
    Obs(op, http, resp, order_id, FALSE, NotInvoked, NoEvent)

\* POST /checkout/create-order.  The optional invoice row and the
\* best-effort "order received" email are not part of the model.
create_order_real(product, partner_code) ==
    LET f == parse_product_to_order_fields(product)
        a == calc_amounts_from_db(f.package_id, f.quantity, partner_code)
    IN
    /\ Len(orders) < MaxOrders
    /\ IF f.http # 0 THEN
           /\ last' = Plain("create_order", f.http, "invalid_product", 0)
           /\ UNCHANGED orders
       ELSE IF a.http # 0 THEN
           /\ last' = Plain("create_order", a.http, "invalid_amount", 0)
           /\ UNCHANGED orders
       ELSE
           /\ orders' = Append(orders, Order(f.order_type, f.package_id, f.quantity,
                                             a.subtotal, a.discount, a.total, partner_code))
           /\ last' = [Plain("create_order", 200, "created", Len(orders) + 1)
                          EXCEPT !.info = << product >>]
    /\ UNCHANGED << partner_requests, trial_requests, env, licenses, payouts, partners, sessions, accepted, reqs >>

\* POST /checkout/stripe/session.  stripeOk: stripe.checkout.Session.create
\* succeeds.  The session records the order id (metadata.order_id) and the
\* amount it was created for.
create_stripe_checkout_session(order_id, stripeOk) ==
    LET fail(http, resp) ==
            /\ last' = Plain("stripe_session", http, resp, 0)
            /\ UNCHANGED << orders, sessions >>
    IN
    /\ Len(sessions) < MaxSessions
    /\ IF ~env.STRIPE_SECRET_KEY THEN fail(500, "not_configured")
       ELSE IF order_id \notin DOMAIN orders THEN fail(404, "order_not_found")
       ELSE IF orders[order_id].payment_status = "PAID" THEN fail(400, "already_paid")
       ELSE IF orders[order_id].total_amount <= 0 THEN fail(400, "invalid_amount")
       ELSE IF ~stripeOk THEN fail(400, "stripe_error")
       ELSE
           /\ sessions' = Append(sessions,
                  [order_id |-> order_id,
                   amount |-> eur_to_cents(orders[order_id].total_amount)])
           /\ orders' = [orders EXCEPT ![order_id].payment_method = "STRIPE"]
           /\ last' = Plain("stripe_session", 200, "created", order_id)
    /\ UNCHANGED << partner_requests, trial_requests, env, licenses, payouts, partners, accepted, reqs >>

\* ------------------------------------------------------------------------
\* routers/admin_partners.py
\* ------------------------------------------------------------------------
\* PATCH /admin/partners/{partner_id}/active
admin_set_partner_active(token, partner_id, is_active) ==
    /\ IF get_current_admin(token) # 0 THEN
           /\ last' = [Plain("set_partner_active", get_current_admin(token), "denied", 0)
                          EXCEPT !.info = << token >>]
           /\ UNCHANGED partners
       ELSE IF partner_id \notin DOMAIN partners THEN
           /\ last' = [Plain("set_partner_active", 404, "not_found", 0)
                          EXCEPT !.info = << token >>]
           /\ UNCHANGED partners
       ELSE
           /\ partners' = [partners EXCEPT ![partner_id].is_active = is_active]
           /\ last' = [Plain("set_partner_active", 200, "ok", 0)
                          EXCEPT !.info = << token >>]
    /\ UNCHANGED << partner_requests, trial_requests, env, orders, licenses, payouts, sessions, accepted, reqs >>

\* ------------------------------------------------------------------------
\* The webhook endpoint, one request handled alone
\* ------------------------------------------------------------------------
\* Signed and unsigned requests the endpoint may receive.
\* - requests without a signature or with a wrong one, whose payload
\*   names no order or an order;
\* - signed events of another type;
\* - the event Stripe sends for a session this backend created;
\* - that event, or an event of no such session, without a usable
\*   metadata.order_id (absent, not numeric, or the id of no order);
\* - events that name an order in metadata.order_id with any amount.
Events ==
    { Event(sig, "checkout.session.completed", m, 0, 0, NoAmount) :
        sig \in { "missing", "bad" }, m \in 0..Len(orders) }
      \cup { Event("ok", "payment_intent.succeeded", 0, 0, 0, NoAmount) }
      \cup { Event("ok", "checkout.session.completed",
                   sessions[i].order_id, i, 1, sessions[i].amount) :
               i \in DOMAIN sessions }
      \cup { Event("ok", "checkout.session.completed", m, i, 1, sessions[i].amount) :
               m \in { 0 - 1, 0, Len(orders) + 1 }, i \in DOMAIN sessions }
      \cup { Event("ok", "checkout.session.completed", m, 0, pi, NoAmount) :
               m \in { 0 - 1, 0, Len(orders) + 1 }, pi \in 0..1 }
      \cup UNION { { Event("ok", "checkout.session.completed", m, 0, 0, amt) :
                       amt \in { NoAmount, 1, eur_to_cents(orders[m].total_amount) } } :
                     m \in DOMAIN orders }

\* failAt is enumerated only where an AirLink call is made.
SetDB(db) ==
    /\ orders' = db.orders
    /\ licenses' = db.licenses
    /\ payouts' = db.payouts
    /\ partners' = db.partners

\* The request with result r is answered and its commits become the
\* database.
webhook_request_done(r, failAt) ==
    /\ failAt # 0 => (r.obs.outcome = "raised" /\ r.obs.calls # << >>)
    /\ SetDB(r.db)
    /\ last' = r.obs
    /\ accepted' = IF r.obs.resp = "PAID" THEN accepted \cup { r.obs.order_id } ELSE accepted
    /\ UNCHANGED << partner_requests, trial_requests, env, sessions, reqs >>

stripe_webhook(ev, failAt) ==
    webhook_request_done(handle_stripe_webhook(env, DB, ev, failAt, NoFault), failAt)

\* ------------------------------------------------------------------------
\* Specification: requests handled one at a time
\* ------------------------------------------------------------------------
NoOrder == Order("", 0, 0, 0, 0, 0, "")

\* A request slot of the concurrent specification: pc is the position of
\* the handler, ord the Order object of the request's session, res what
\* fulfill_paid_order holds pending before its commit.
Idle ==
    [pc |-> "idle", ev |-> NoEvent, oid |-> 0, was_paid |-> FALSE,
     ord |-> NoOrder, res |-> NotInvokedResult(NoOrder)]

Init ==
    /\ env \in [STRIPE_WEBHOOK_SECRET : BOOLEAN, STRIPE_SECRET_KEY : BOOLEAN]
    /\ orders = << >>
    /\ licenses = << >>
    /\ payouts = << >>
    /\ partners = << Partner("p@vg", "BASE", "VGP1", 10, TRUE) >>
    /\ partner_requests = << >>
    /\ trial_requests = << >>
    /\ sessions = << >>
    /\ accepted = {}
    /\ reqs = [r \in 1..2 |-> Idle]
    /\ last = Plain("init", 0, "", 0)

Next ==
    \/ \E product \in Products, partner_code \in PartnerCodes :
          create_order_real(product, partner_code)
    \/ \E order_id \in 1..MaxOrders, stripeOk \in BOOLEAN :
          create_stripe_checkout_session(order_id, stripeOk)
    \/ \E token \in Tokens, partner_id \in 1..(Len(partners) + 1), is_active \in BOOLEAN :
          /\ get_current_admin(token) # 0 => (partner_id = 1 /\ is_active)
          /\ admin_set_partner_active(token, partner_id, is_active)
    \/ \E ev \in Events, failAt \in 0..MaxUnits :
          stripe_webhook(ev, failAt)

Spec == Init /\ [][Next]_vars

\* ------------------------------------------------------------------------
\* Specification: two webhook requests handled concurrently, each with its
\* own session; a step is one database read, one commit, or the work
\* between them.  No lock is taken and no row is selected FOR UPDATE.
\* ------------------------------------------------------------------------
\* Lines 53-149: verification, the order lookup (the session loads the Order
\* row), the amount guard, was_paid.
conc_receive(r, ev) ==
    LET i == webhook_intake(env, DB, ev)
    IN
    /\ reqs[r].pc = "idle"
    /\ IF ~i.accepted THEN
           /\ reqs' = [reqs EXCEPT ![r].pc = "done", ![r].ev = ev]
           /\ last' = Obs("webhook", i.http, i.resp, i.oid, FALSE, NotInvoked, ev)
           /\ UNCHANGED accepted
       ELSE
           /\ reqs' = [reqs EXCEPT ![r] =
                  [pc |-> IF orders[i.oid].payment_status = "PAID" THEN "fulfil" ELSE "mark",
                   ev |-> ev, oid |-> i.oid,
                   was_paid |-> orders[i.oid].payment_status = "PAID",
                   ord |-> orders[i.oid], res |-> NotInvokedResult(NoOrder)]]
           /\ accepted' = accepted \cup { i.oid }
           /\ UNCHANGED last
    /\ UNCHANGED << partner_requests, trial_requests, env, orders, licenses, payouts, partners, sessions >>

\* Lines 151-174: the UPDATE of the payment columns is committed and the
\* Order object refreshed from the row.
conc_commit_paid(r) ==
    /\ reqs[r].pc = "mark"
    /\ orders' = [orders EXCEPT ![reqs[r].oid] = mark_paid(@)]
    /\ reqs' = [reqs EXCEPT ![r].pc = "fulfil", ![r].ord = orders'[reqs[r].oid]]
    /\ UNCHANGED << partner_requests, trial_requests, env, licenses, payouts, partners, sessions, accepted, last >>

\* fulfill_paid_order up to its commit: the License query and everything
\* computed from it.  The request ends here when the order is already
\* fulfilled or when fulfilment raises.
conc_fulfil_prepare(r, failAt) ==
    LET res == fulfill_prepare(DB, reqs[r].ord, reqs[r].oid, failAt, r - 1, NoFault)
    IN
    /\ reqs[r].pc = "fulfil"
    /\ failAt # 0 => (res.outcome = "raised" /\ res.calls # << >>)
    /\ IF res.outcome = "fulfilled" THEN
           /\ reqs' = [reqs EXCEPT ![r].pc = "commit", ![r].res = res]
           /\ UNCHANGED last
       ELSE
           /\ reqs' = [reqs EXCEPT ![r].pc = "done"]
           /\ last' = Obs("webhook", 200, "PAID", reqs[r].oid, reqs[r].was_paid,
                          ObsOfResult(res), reqs[r].ev)
    /\ UNCHANGED << partner_requests, trial_requests, env, orders, licenses, payouts, partners, sessions, accepted >>

\* db.commit() of fulfill_paid_order, the email and the response.
conc_fulfil_commit(r) ==
    LET db2 == fulfill_commit(DB, reqs[r].oid, reqs[r].res)
    IN
    /\ reqs[r].pc = "commit"
    /\ orders' = db2.orders
    /\ licenses' = db2.licenses
    /\ payouts' = db2.payouts
    /\ reqs' = [reqs EXCEPT ![r].pc = "done"]
    /\ last' = Obs("webhook", 200, "PAID", reqs[r].oid, reqs[r].was_paid,
                   ObsOfResult(reqs[r].res), reqs[r].ev)
    /\ UNCHANGED << partner_requests, trial_requests, env, partners, sessions, accepted >>

NextConc ==
    \/ \E product \in Products, partner_code \in PartnerCodes :
          create_order_real(product, partner_code)
    \/ \E r \in DOMAIN reqs, ev \in Events : conc_receive(r, ev)
    \/ \E r \in DOMAIN reqs : conc_commit_paid(r)
    \/ \E r \in DOMAIN reqs, failAt \in 0..MaxUnits : conc_fulfil_prepare(r, failAt)
    \/ \E r \in DOMAIN reqs : conc_fulfil_commit(r)

SpecConc == Init /\ [][NextConc]_vars

\* ------------------------------------------------------------------------
\* routers/purchase.py
\* ------------------------------------------------------------------------
\* Price tables, in cents; 0 stands for "no such key" (dict.get gives None).
LICENSE_PRICES(max_guests) ==
    CASE max_guests = 10 -> 799
      [] max_guests = 25 -> 1499
      [] max_guests = 35 -> 1999
      [] max_guests = 100 -> 4999
      [] OTHER -> 0

TO_PACKAGES(bundle_size) ==
    CASE bundle_size = 10 -> 11900
      [] bundle_size = 20 -> 22500
      [] bundle_size = 50 -> 52500
      [] bundle_size = 100 -> 97500
      [] OTHER -> 0

SCHOOL_PACKAGES(bundle_size) ==
    CASE bundle_size = 1 -> 2999
      [] bundle_size = 5 -> 13500
      [] bundle_size = 10 -> 24900
      [] bundle_size = 30 -> 67500
      [] OTHER -> 0

\* str.upper() on the strings the model sends.
Upper(s) ==
    CASE s = "to" -> "TO"
      [] s = "school" -> "SCHOOL"
      [] s = "pro" -> "PRO"
      [] s = "elite" -> "ELITE"
      [] s = "base" -> "BASE"
      [] OTHER -> s

\* The request as observed: its calls to AirLink, the receipt email and
\* the codes of the response.
PurchaseObs(op, http, resp, order_id, calls, emails, codes) ==
    [Plain(op, http, resp, order_id)
     EXCEPT !.calls = calls, !.emails = emails, !.codes = codes]

\* The part purchase_single and purchase_package share: the PAID order is
\* committed, then the payout, then one AirLink call per license (the
\* first failure answers 502 and the License rows of the request are
\* lost), then the License rows, then the receipt email in try/except.
purchase_commit(op, db, order_type, license_type, max_guests, quantity, subtotal, est_cost, referral_code, failAt, emailFails) ==
    LET partner == get_active_partner_by_code(db, referral_code)
        discount == calc_partner_discount(subtotal, partner)
        total == Money2(subtotal - discount, 1)
        oid == Len(db.orders) + 1
        new_order ==
            [Order(order_type, 0, quantity, subtotal, discount, total,
                   IF partner # 0 THEN referral_code ELSE "")
             EXCEPT !.estimated_agora_cost = est_cost,
                    !.payment_status = "PAID",
                    !.partner_id = partner]
        new_payouts ==
            IF partner # 0
            THEN << PartnerPayout(partner, oid,
                      Money2(total * db.partners[partner].commission_pct, 100)) >>
            ELSE << >>
        db1 == [db EXCEPT !.orders = Append(@, new_order), !.payouts = @ \o new_payouts]
        codes == [k \in 1..quantity |-> generate_license_code(db, 0, k)]
        new_licenses == [k \in 1..quantity |-> License(codes[k], license_type, max_guests, oid)]
    IN IF failAt \in 1..quantity
       THEN [db |-> db1,
             obs |-> PurchaseObs(op, 502, "airlink_failed", oid,
                                 SubSeq(codes, 1, failAt), << >>, << >>)]
       ELSE [db |-> [db1 EXCEPT !.licenses = @ \o new_licenses],
             obs |-> PurchaseObs(op, 200, "PAID", oid, codes,
                                 << EmailAttempt(oid, << order_type, max_guests >>,
                                                 IF quantity > 0 THEN codes[1] ELSE 0,
                                                 ~emailFails) >>,
                                 codes)]

\* POST /purchase/single
purchase_single_result(db, max_guests, quantity, referral_code, failAt, emailFails) ==
    LET price == LICENSE_PRICES(max_guests)
    IN IF price = 0
       THEN [db |-> db, obs |-> Plain("purchase_single", 400, "invalid_license_type", 0)]
       ELSE purchase_commit("purchase_single", db, "SINGLE", "SINGLE", max_guests, quantity,
                            Money2(price * quantity, 1),
                            estimate_agora_cost_for_single_license(max_guests),
                            referral_code, failAt, emailFails)

\* POST /purchase/package
purchase_package_result(db, package_type, bundle_size, referral_code, failAt, emailFails) ==
    LET t == Upper(package_type)
        price == IF t = "TO" THEN TO_PACKAGES(bundle_size) ELSE SCHOOL_PACKAGES(bundle_size)
        max_guests == IF t = "TO" THEN 25 ELSE 100
    IN IF t \notin { "TO", "SCHOOL" }
       THEN [db |-> db, obs |-> Plain("purchase_package", 400, "invalid_package_type", 0)]
       ELSE IF price = 0
       THEN [db |-> db, obs |-> Plain("purchase_package", 400, "invalid_bundle_size", 0)]
       ELSE purchase_commit("purchase_package", db,
                            IF t = "TO" THEN "PACKAGE_TO" ELSE "PACKAGE_SCHOOL", t,
                            max_guests, bundle_size, Money2(price, 1),
                            estimate_agora_cost_for_n_licenses(bundle_size, max_guests),
                            referral_code, failAt, emailFails)

\* ------------------------------------------------------------------------
\* routers/payouts_admin.py
\* ------------------------------------------------------------------------
calc_commission_from_payload(order_total, commission_pct, payload_amount) == payload_amount

calc_commission(order_total, commission_pct, payload_amount) ==
    Money2(order_total * commission_pct, 100)

\* POST /admin/payouts/create; amount is the amount of the payload.
existing_payout_unchecked(db, partner_id, order_id) == {}

\* The PartnerPayout rows of the partner for the order: the duplicate check.
existing_payout(db, partner_id, order_id) ==
    { i \in DOMAIN db.payouts : /\ db.payouts[i].partner_id = partner_id
                                /\ db.payouts[i].order_id = order_id }

create_payout_result(db, token, partner_id, order_id, amount) ==
    LET plain(http, resp) ==
            [db |-> db,
             obs |-> [Plain("create_payout", http, resp, 0) EXCEPT !.info = << amount >>]]
        existing == existing_payout(db, partner_id, order_id)
    IN IF get_current_admin(token) # 0 THEN plain(get_current_admin(token), "denied")
       ELSE IF partner_id \notin DOMAIN db.partners THEN plain(404, "partner_not_found")
       ELSE IF order_id \notin DOMAIN db.orders THEN plain(404, "order_not_found")
       ELSE IF db.orders[order_id].partner_id # partner_id THEN plain(400, "not_of_partner")
       ELSE IF existing # {} THEN plain(409, "payout_exists")
       ELSE [db |-> [db EXCEPT !.payouts = Append(@,
                        PartnerPayout(partner_id, order_id,
                            calc_commission(db.orders[order_id].total_amount,
                                            db.partners[partner_id].commission_pct,
                                            amount)))],
             obs |-> [Plain("create_payout", 200, "created", order_id)
                      EXCEPT !.info = << amount >>]]

\* ------------------------------------------------------------------------
\* routers/admin_partners.py: the tier of a partner
\* ------------------------------------------------------------------------
\* commission_pct of a query string: NoPct when the parameter is absent.
NoPct == 0 - 1000

TIER_DEFAULT_COMMISSION(tier) ==
    CASE tier = "BASE" -> 10
      [] tier = "PRO" -> 15
      [] tier = "ELITE" -> 20

Tiers == { "BASE", "PRO", "ELITE" }

\* normalize_tier of admin_partners.py; "" is None or the empty string.
admin_normalize_tier(val) ==
    IF val = "" THEN "BASE"
    ELSE IF Upper(val) \in Tiers THEN Upper(val) ELSE "BASE"

\* PATCH /admin/partners/{partner_id}/tier
admin_set_partner_tier(token, partner_id, tier, commission_pct) ==
    LET chosen_tier == admin_normalize_tier(tier)
        final_comm == IF commission_pct # NoPct THEN commission_pct
                      ELSE TIER_DEFAULT_COMMISSION(chosen_tier)
    IN
    /\ IF get_current_admin(token) # 0 THEN
           /\ last' = Plain("set_partner_tier", get_current_admin(token), "denied", 0)
           /\ UNCHANGED partners
       ELSE IF partner_id \notin DOMAIN partners THEN
           /\ last' = Plain("set_partner_tier", 404, "not_found", 0)
           /\ UNCHANGED partners
       ELSE IF final_comm < 0 \/ final_comm > 100 THEN
           /\ last' = Plain("set_partner_tier", 400, "commission_out_of_range", 0)
           /\ UNCHANGED partners
       ELSE
           /\ partners' = [partners EXCEPT ![partner_id].partner_type = chosen_tier,
                                           ![partner_id].commission_pct = final_comm]
           /\ last' = Plain("set_partner_tier", 200, "ok", 0)
    /\ UNCHANGED << partner_requests, trial_requests, env, orders, licenses, payouts,
                    sessions, accepted, reqs >>

\* ------------------------------------------------------------------------
\* Specification: the paths that create orders, licenses and payouts, with
\* the failures of the payout, of the commit and of the email
\* ------------------------------------------------------------------------
request_done(r) ==
    /\ SetDB(r.db)
    /\ last' = r.obs
    /\ UNCHANGED << partner_requests, trial_requests, env, sessions, accepted, reqs >>

purchase_done(r, failAt, emailFails) ==
    /\ Len(orders) < MaxOrders
    /\ failAt # 0 => r.obs.http = 502
    /\ emailFails => r.obs.emails # << >>
    /\ request_done(r)

purchase_single(max_guests, quantity, referral_code, failAt, emailFails) ==
    purchase_done(purchase_single_result(DB, max_guests, quantity, referral_code,
                                         failAt, emailFails),
                  failAt, emailFails)

purchase_package(package_type, bundle_size, referral_code, failAt, emailFails) ==
    purchase_done(purchase_package_result(DB, package_type, bundle_size, referral_code,
                                          failAt, emailFails),
                  failAt, emailFails)

create_payout(token, partner_id, order_id, amount) ==
    request_done(create_payout_result(DB, token, partner_id, order_id, amount))

\* The webhook with the failures of fulfilment; a failure is enumerated
\* only where the code reaches the statement that fails.
\* Fulfilment of order oid gets as far as the payout block (lines 228-240).
payout_reached(db, oid) ==
    /\ ExistingLicenses(db, oid) = << >>
    /\ get_active_partner_by_code(db, db.orders[oid].referral_code) # 0
    /\ load_package(db.orders[oid]) # 0
    /\ license_type_of(db.orders[oid].order_type) # ""

faulty_request_done(r, failAt, fault) ==
    /\ fault.payout # "none" =>
          /\ r.obs.resp = "PAID"
          /\ payout_reached(DB, r.obs.order_id)
          /\ failAt = 0
    /\ fault.email => r.obs.emails # << >>
    /\ webhook_request_done(r, failAt)

stripe_webhook_faulty(ev, failAt, fault) ==
    faulty_request_done(handle_stripe_webhook(env, DB, ev, failAt, fault), failAt, fault)

\* Inputs of the purchase endpoints and of the admin endpoints.
PurchaseGuests == { 25, 30 }

PurchaseQuantities == { 0, 1, 2 }

PurchasePackages == { << "school", 5 >>, << "TO", 10 >>, << "TO", 1 >>, << "MUSEUM", 1 >> }

PurchaseCodes == { "", "VGP1" }

PayloadAmounts == { 1, 15000 }

TierChanges == { << "pro", NoPct >>, << "ELITE", 101 >> }

\* Verified checkout.session.completed events that name an order and carry
\* no amount or the amount of the order.
ShopEvents ==
    { ev \in Events : /\ ev.sig = "ok"
                      /\ ev.order_id_raw \in DOMAIN orders
                      /\ ev.amount_total # 1 }

\* Both Stripe secrets are configured.
InitShop ==
    /\ Init
    /\ env = [STRIPE_WEBHOOK_SECRET |-> TRUE, STRIPE_SECRET_KEY |-> TRUE]

NextShop ==
    \/ \E product \in Products, partner_code \in PartnerCodes :
          create_order_real(product, partner_code)
    \/ \E g \in PurchaseGuests, q \in PurchaseQuantities, c \in PurchaseCodes,
          failAt \in 0..MaxOf(PurchaseQuantities), emailFails \in BOOLEAN :
          purchase_single(g, q, c, failAt, emailFails)
    \/ \E p \in PurchasePackages, c \in PurchaseCodes, failAt \in 0..1, emailFails \in BOOLEAN :
          purchase_package(p[1], p[2], c, failAt, emailFails)
    \/ \E ev \in ShopEvents, failAt \in 0..MaxUnits, fault \in Faults :
          stripe_webhook_faulty(ev, failAt, fault)
    \/ \E token \in Tokens, partner_id \in 1..(Len(partners) + 1),
          order_id \in 1..(Len(orders) + 1), amount \in PayloadAmounts :
          /\ get_current_admin(token) # 0 => (partner_id = 1 /\ order_id = 1 /\ amount = 1)
          /\ create_payout(token, partner_id, order_id, amount)
    \/ \E token \in Tokens, partner_id \in 1..(Len(partners) + 1), t \in TierChanges :
          /\ get_current_admin(token) # 0 => (partner_id = 1 /\ t[2] = NoPct)
          /\ admin_set_partner_tier(token, partner_id, t[1], t[2])

SpecShop == InitShop /\ [][NextShop]_vars

\* ------------------------------------------------------------------------
\* routers/partner_requests.py, routers/admin_partner_requests.py,
\* routers/partners.py, routers/admin_partners.py: partner requests and the
\* partners made from them
\* ------------------------------------------------------------------------
PartnerRequest(email, partner_tier, status) ==
    [email |-> email, partner_tier |-> partner_tier, status |-> status]

\* Answer of a handler of this part; id is the request or partner id of the
\* path, emails the messages handed to the email service, info the inputs.
AdminObs(op, http, resp, id, emails, info) ==
    [Plain(op, http, resp, 0) EXCEPT !.emails = emails, !.info = << id >> \o info]

\* str.lower() letter by letter; an organization is a tuple of characters.
LowerChar(c) ==
    CASE c = "A" -> "a" [] c = "E" -> "e" [] c = "G" -> "g" [] c = "I" -> "i"
      [] c = "L" -> "l" [] c = "N" -> "n" [] c = "O" -> "o" [] c = "P" -> "p"
      [] c = "R" -> "r" [] c = "T" -> "t" [] c = "Z" -> "z"
      [] OTHER -> c

Lower(v) == [i \in DOMAIN v |-> LowerChar(v[i])]

\* sub in v
Contains(v, sub) ==
    \E i \in 1..(Len(v) - Len(sub) + 1) : SubSeq(v, i, i + Len(sub) - 1) = sub

\* _tier_from_organization; << >> is None or the empty string.
tier_from_organization(org) ==
    IF org = << >> THEN "BASE"
    ELSE LET v == Lower(org)
         IN IF Contains(v, << "e", "l", "i", "t", "e" >>)
               \/ Contains(v, << "e", "n", "t", "e", "r", "p", "r", "i", "s", "e" >>)
            THEN "ELITE"
            ELSE IF \/ Contains(v, << "p", "r", "o" >>)
                    \/ Contains(v, << "a", "g", "e", "n" >>)
                    \/ Contains(v, << "a", "g", "e", "n", "c", "y" >>)
                    \/ Contains(v, << "t", "o", "u", "r", " ", "o", "p", "e", "r", "a", "t", "o", "r" >>)
                    \/ v \in { << "t", "o" >>, << "t", "o", "u", "r" >> }
            THEN "PRO"
            ELSE "BASE"

\* The tier of a payload: the public form carries organization, the
\* internal shape carries partner_tier.
payload_tier(payload) ==
    IF payload.shape = "public" THEN tier_from_organization(payload.organization)
    ELSE payload.partner_tier

\* What the stored email would be if the payload's email were kept as sent.
normalize_email_kept(email) == email

\* str(email).lower().strip() on the addresses of the model.
normalize_email(email) ==
    CASE email = "A@X" -> "a@x"
      [] email = " a@x" -> "a@x"
      [] email = "P@vg" -> "p@vg"
      [] OTHER -> email

\* POST /partner-requests (payloads that pass validation); raw_email is the
\* email of the payload.
create_partner_request(raw_email, payload) ==
    LET email == normalize_email(raw_email)
        answer(http, resp, id) ==
            AdminObs("create_partner_request", http, resp, id, << >>, << raw_email >>)
    IN
    /\ Len(partner_requests) < MaxPartnerRequests
    /\ IF \E r \in DOMAIN partner_requests :
             /\ partner_requests[r].email = email
             /\ partner_requests[r].status = "PENDING"
       THEN /\ last' = answer(409, "already_pending", 0)
            /\ UNCHANGED partner_requests
       ELSE IF \E r \in DOMAIN partner_requests : partner_requests[r].email = email
       THEN \* unique(partner_requests.email): IntegrityError at commit
            /\ last' = answer(409, "already_exists", 0)
            /\ UNCHANGED partner_requests
       ELSE /\ partner_requests' =
                  Append(partner_requests, PartnerRequest(email, payload_tier(payload), "PENDING"))
            /\ last' = answer(200, "created", Len(partner_requests) + 1)
    /\ UNCHANGED << trial_requests, env, orders, licenses, payouts, partners, sessions,
                    accepted, reqs >>

\* normalize_tier of admin_partner_requests.py; "" is None. The inputs of the
\* model carry no surrounding blanks.
normalize_tier(tier_obj) ==
    IF tier_obj = "" THEN "BASE"
    ELSE IF Upper(tier_obj) \in Tiers THEN Upper(tier_obj) ELSE "BASE"

\* What the PENDING test of the two handlers would be if it were left out.
require_pending_skipped(req) == 0

\* if req.status != PENDING: 400; 0 lets the handler go on.
require_pending(req) == IF req.status # "PENDING" THEN 400 ELSE 0

\* The while loop over generate_referral_code: the first generated code that
\* no Partner has; 0 while every code generated so far is taken.
pick_referral_code(draws) ==
    LET free == { i \in DOMAIN draws :
                     \A p \in DOMAIN partners : partners[p].referral_code # draws[i] }
    IN IF free = {} THEN 0 ELSE FirstOf(free)

\* Partner(name, email, referral_code, commission_pct, is_active=True):
\* partner_type is not passed and takes the column default.
approved_partner(req, code, final_commission) ==
    Partner(req.email, "BASE", code, final_commission, TRUE)

\* What the request row would be if approval left its status alone.
approved_request_status_kept(req, chosen_tier) ==
    [req EXCEPT !.partner_tier = chosen_tier]

\* The request row written by approval.
approved_request(req, chosen_tier) ==
    [req EXCEPT !.partner_tier = chosen_tier, !.status = "APPROVED"]

\* unique(partners.email), unique(partners.referral_code) at commit
partner_insert_raises(partner) ==
    \E p \in DOMAIN partners :
       \/ partners[p].email = partner.email
       \/ partners[p].referral_code = partner.referral_code

PartnerEmail(kind, to_email, referral_code, commission_pct, tier, delivered) ==
    [kind |-> kind, to_email |-> to_email, referral_code |-> referral_code,
     commission_pct |-> commission_pct, tier |-> tier, delivered |-> delivered]

\* POST /admin/partner-requests/{request_id}/approve
\* token is the Authorization header the request came with; the signature
\* of the handler has no dependency that reads it (lines 108-113), so it is
\* only recorded.
approve_partner_request(token, request_id, tier, commission_pct, draws, emailFails) ==
    LET info == << tier, commission_pct, token >>
        answer(http, resp, emails) ==
            AdminObs("approve_partner_request", http, resp, request_id, emails, info)
    IN
    /\ IF request_id \notin DOMAIN partner_requests THEN
           /\ last' = answer(404, "not_found", << >>)
           /\ UNCHANGED << partner_requests, partners >>
       ELSE IF require_pending(partner_requests[request_id]) # 0 THEN
           /\ last' = answer(require_pending(partner_requests[request_id]), "not_pending", << >>)
           /\ UNCHANGED << partner_requests, partners >>
       ELSE
           LET req == partner_requests[request_id]
               chosen_tier == IF tier # "" THEN normalize_tier(tier)
                              ELSE normalize_tier(req.partner_tier)
               final_commission == IF commission_pct # NoPct THEN commission_pct
                                   ELSE TIER_DEFAULT_COMMISSION(chosen_tier)
           IN IF final_commission < 0 \/ final_commission > 100 THEN
                  /\ last' = answer(400, "commission_out_of_range", << >>)
                  /\ UNCHANGED << partner_requests, partners >>
              ELSE
                  /\ pick_referral_code(draws) # 0
                  /\ LET code == draws[pick_referral_code(draws)]
                         partner == approved_partner(req, code, final_commission)
                     IN IF partner_insert_raises(partner) THEN
                            /\ last' = answer(500, "integrity_error", << >>)
                            /\ UNCHANGED << partner_requests, partners >>
                        ELSE
                            /\ Len(partners) < MaxPartners
                            /\ partners' = Append(partners, partner)
                            /\ partner_requests' =
                                  [partner_requests EXCEPT
                                      ![request_id] = approved_request(req, chosen_tier)]
                            /\ last' = answer(200, "APPROVED",
                                              << PartnerEmail("approved", req.email, code,
                                                              final_commission, chosen_tier,
                                                              ~emailFails) >>)
    /\ UNCHANGED << trial_requests, env, orders, licenses, payouts, sessions, accepted, reqs >>

\* POST /admin/partner-requests/{request_id}/reject
\* token as for approve: the handler takes request_id and db only (line 77).
reject_partner_request(token, request_id, emailFails) ==
    LET answer(http, resp, emails) ==
            AdminObs("reject_partner_request", http, resp, request_id, emails, << token >>)
    IN
    /\ IF request_id \notin DOMAIN partner_requests THEN
           /\ last' = answer(404, "not_found", << >>)
           /\ UNCHANGED partner_requests
       ELSE IF require_pending(partner_requests[request_id]) # 0 THEN
           /\ last' = answer(require_pending(partner_requests[request_id]), "not_pending", << >>)
           /\ UNCHANGED partner_requests
       ELSE
           /\ partner_requests' = [partner_requests EXCEPT ![request_id].status = "REJECTED"]
           /\ last' = answer(200, "REJECTED",
                             << PartnerEmail("rejected", partner_requests[request_id].email,
                                             "", NoPct, "", ~emailFails) >>)
    /\ UNCHANGED << trial_requests, env, orders, licenses, payouts, partners, sessions,
                    accepted, reqs >>

\* The body shared by POST /partners/create and POST /admin/partners/create.
\* payload.partner_type is a PartnerType of the schema, so the conversion
\* PartnerType(payload.partner_type.upper()) cannot fail.
create_partner_body(op, payload) ==
    IF \E p \in DOMAIN partners : partners[p].email = payload.email THEN
        /\ last' = AdminObs(op, 400, "email_exists", 0, << >>, << >>)
        /\ UNCHANGED partners
    ELSE IF \E p \in DOMAIN partners : partners[p].referral_code = payload.referral_code THEN
        /\ last' = AdminObs(op, 400, "referral_code_exists", 0, << >>, << >>)
        /\ UNCHANGED partners
    ELSE
        /\ Len(partners) < MaxPartners
        /\ partners' = Append(partners, Partner(payload.email, Upper(payload.partner_type),
                                                payload.referral_code, payload.commission_pct,
                                                TRUE))
        /\ last' = AdminObs(op, 200, "created", Len(partners) + 1, << >>, << >>)

\* POST /partners/create
create_partner(payload) ==
    /\ create_partner_body("create_partner", payload)
    /\ UNCHANGED << partner_requests, trial_requests, env, orders, licenses, payouts,
                    sessions, accepted, reqs >>

\* POST /admin/partners/create
admin_create_partner(token, payload) ==
    /\ IF get_current_admin(token) # 0 THEN
           /\ last' = AdminObs("admin_create_partner", get_current_admin(token), "denied", 0,
                               << >>, << >>)
           /\ UNCHANGED partners
       ELSE create_partner_body("admin_create_partner", payload)
    /\ UNCHANGED << partner_requests, trial_requests, env, orders, licenses, payouts,
                    sessions, accepted, reqs >>

\* ------------------------------------------------------------------------
\* Specification: partner requests and partners
\* ------------------------------------------------------------------------
RequestEmails == { "a@x", "A@X", "p@vg" }

RequestPayloads ==
    { [shape |-> "internal", partner_tier |-> "BASE", organization |-> << >>],
      [shape |-> "internal", partner_tier |-> "PRO", organization |-> << >>],
      [shape |-> "public", partner_tier |-> "", organization |-> << "E", "l", "i", "t", "e" >>],
      [shape |-> "public", partner_tier |-> "", organization |-> << "T", "O" >>],
      [shape |-> "public", partner_tier |-> "", organization |-> << "z", "o", "o" >>] }

\* The tier and commission_pct query parameters of an approval.
Approvals ==
    { << "", NoPct >>, << "pro", NoPct >>, << "GOLD", 12 >>, << "pro", 101 >>,
      << "", 0 - 1 >> }

\* Codes generate_referral_code hands out, in the order of the loop.
ReferralDraws == { << "VGP1", "VG-A" >>, << "VG-B" >> }

PartnerPayloads ==
    { [email |-> "a@x", partner_type |-> "PRO", commission_pct |-> 15, referral_code |-> "VG-A"],
      [email |-> "c@x", partner_type |-> "BASE", commission_pct |-> 10, referral_code |-> "VGP1"],
      [email |-> "c@x", partner_type |-> "ELITE", commission_pct |-> 20, referral_code |-> "VG-B"] }

\* The Authorization header of a call of /admin/partner-requests/*: absent,
\* a partner's token, an admin's token.
RequestTokens ==
    { Token(FALSE, FALSE, "", 0), Token(TRUE, TRUE, "partner", 1), Token(TRUE, TRUE, "admin", 1) }

NextPartners ==
    \/ \E email \in RequestEmails, payload \in RequestPayloads :
          create_partner_request(email, payload)
    \/ \E token \in RequestTokens, request_id \in 1..MaxPartnerRequests, a \in Approvals,
          draws \in ReferralDraws, emailFails \in BOOLEAN :
          approve_partner_request(token, request_id, a[1], a[2], draws, emailFails)
    \/ \E token \in RequestTokens, request_id \in 1..MaxPartnerRequests,
          emailFails \in BOOLEAN :
          reject_partner_request(token, request_id, emailFails)
    \/ \E payload \in PartnerPayloads :
          create_partner(payload)
    \/ \E token \in Tokens, payload \in PartnerPayloads :
          admin_create_partner(token, payload)

InitPartners == Init /\ env = [STRIPE_WEBHOOK_SECRET |-> TRUE, STRIPE_SECRET_KEY |-> TRUE]

SpecPartners == InitPartners /\ [][NextPartners]_vars

\* ------------------------------------------------------------------------
\* routers/trial_requests.py, routers/admin_trial_requests.py,
\* routers/admin_licenses.py: trial requests and the licenses issued for them
\* ------------------------------------------------------------------------
\* A message is the tuple of its parts; << >> is NULL or the empty string.
TrialRequest(email, message, status) ==
    [email |-> email, message |-> message, status |-> status]

\* POST /trial-requests; dbFails: the insert or the commit raises.
create_trial_request(email, message, dbFails) ==
    /\ Len(trial_requests) < MaxTrialRequests
    /\ IF dbFails THEN
           /\ last' = AdminObs("create_trial_request", 500, "db_error", 0, << >>, << >>)
           /\ UNCHANGED trial_requests
       ELSE
           /\ trial_requests' = Append(trial_requests, TrialRequest(email, message, "PENDING"))
           /\ last' = AdminObs("create_trial_request", 200, "PENDING",
                               Len(trial_requests) + 1, << >>, << >>)
    /\ UNCHANGED << partner_requests, env, orders, licenses, payouts, partners, sessions,
                    accepted, reqs >>

\* What the PENDING test of the two admin handlers would be if it were
\* left out.
require_trial_pending_skipped(tr) == 0

\* if tr.status != PENDING: 400; 0 lets the handler go on.
require_trial_pending(tr) == IF tr.status # "PENDING" THEN 400 ELSE 0

\* The message after a rejection with reason ("" is no reason).
rejected_message(message, reason) ==
    IF reason = "" THEN message
    ELSE message \o << "[ADMIN REJECT REASON] ", reason >>

TrialObs(op, http, resp, id, calls, emails, info) ==
    [AdminObs(op, http, resp, id, emails, info) EXCEPT !.calls = calls]

\* POST /admin/trial-requests/{trial_request_id}/reject
reject_trial_request(token, trial_request_id, reason) ==
    LET answer(http, resp) ==
            TrialObs("reject_trial_request", http, resp, trial_request_id, << >>, << >>,
                     << token >>)
    IN
    /\ IF get_current_admin(token) # 0 THEN
           /\ last' = answer(get_current_admin(token), "denied")
           /\ UNCHANGED trial_requests
       ELSE IF trial_request_id \notin DOMAIN trial_requests THEN
           /\ last' = answer(404, "not_found")
           /\ UNCHANGED trial_requests
       ELSE IF require_trial_pending(trial_requests[trial_request_id]) # 0 THEN
           /\ last' = answer(require_trial_pending(trial_requests[trial_request_id]),
                             "not_pending")
           /\ UNCHANGED trial_requests
       ELSE
           /\ trial_requests' =
                 [trial_requests EXCEPT
                     ![trial_request_id].status = "REJECTED",
                     ![trial_request_id].message =
                         rejected_message(trial_requests[trial_request_id].message, reason)]
           /\ last' = answer(200, "REJECTED")
    /\ UNCHANGED << partner_requests, env, orders, licenses, payouts, partners, sessions,
                    accepted, reqs >>

max_attempts == 8

\* The answers of AirLink to one issue: the first `collisions` candidates
\* are answered 409 (ValueError CODE_EXISTS), the next one is answered
\* `then`: "ok", "error" (status >= 400, missing env: RuntimeError) or
\* "invalid_url" (requests raises a ValueError of its own).
AirlinkAnswers(collisions, then) == [collisions |-> collisions, then |-> then]

\* The loop of lines 123-136: the calls made, the index of the candidate
\* AirLink accepted (0 when none) and the status raised (0 when none).
airlink_attempts(airlink) ==
    IF airlink.collisions >= max_attempts
    THEN [calls |-> [k \in 1..max_attempts |-> "CODE_EXISTS"], accepted |-> 0, http |-> 500]
    ELSE LET before == [k \in 1..airlink.collisions |-> "CODE_EXISTS"]
         IN CASE airlink.then = "ok" ->
                   [calls |-> Append(before, "ok"), accepted |-> airlink.collisions + 1,
                    http |-> 0]
              [] airlink.then = "invalid_url" ->
                   [calls |-> Append(before, "invalid_url"), accepted |-> 0, http |-> 500]
              [] OTHER ->
                   [calls |-> Append(before, "error"), accepted |-> 0, http |-> 502]

\* What expires_at would be if the duration of the payload were not added.
trial_expires_at_unextended(now, duration_hours) == now

\* expires_at = now + timedelta(hours=duration_hours), in hours.
trial_expires_at(now, duration_hours) == now + duration_hours

\* The License row of lines 146-157.
trial_license(code, payload, now, tr) ==
    [License(code, payload.license_type, payload.max_guests, 0)
     EXCEPT !.duration_hours = payload.duration_hours,
            !.expires_at = trial_expires_at(now, payload.duration_hours),
            !.issued_to_email = tr.email]

TrialEmail(to_email, license_code, expires_at, delivered) ==
    [to_email |-> to_email, license_code |-> license_code, expires_at |-> expires_at,
     delivered |-> delivered]

\* POST /admin/trial-requests/{trial_request_id}/issue
issue_trial_request(token, trial_request_id, payload, airlink, now, emailFails) ==
    LET answer(http, resp, calls, emails) ==
            TrialObs("issue_trial_request", http, resp, trial_request_id, calls, emails,
                     << token, payload, now >>)
    IN
    /\ IF get_current_admin(token) # 0 THEN
           /\ last' = answer(get_current_admin(token), "denied", << >>, << >>)
           /\ UNCHANGED << trial_requests, licenses >>
       ELSE IF trial_request_id \notin DOMAIN trial_requests THEN
           /\ last' = answer(404, "not_found", << >>, << >>)
           /\ UNCHANGED << trial_requests, licenses >>
       ELSE IF require_trial_pending(trial_requests[trial_request_id]) # 0 THEN
           /\ last' = answer(require_trial_pending(trial_requests[trial_request_id]),
                             "not_pending", << >>, << >>)
           /\ UNCHANGED << trial_requests, licenses >>
       ELSE IF airlink_attempts(airlink).http # 0 THEN
           /\ last' = answer(airlink_attempts(airlink).http, "airlink_failed",
                             airlink_attempts(airlink).calls, << >>)
           /\ UNCHANGED << trial_requests, licenses >>
       ELSE
           LET tr == trial_requests[trial_request_id]
               code == generate_license_code(DB, 0, airlink_attempts(airlink).accepted)
               lic == trial_license(code, payload, now, tr)
           IN /\ licenses' = Append(licenses, lic)
              /\ trial_requests' = [trial_requests EXCEPT ![trial_request_id].status = "ISSUED"]
              /\ last' = answer(200, "ISSUED", airlink_attempts(airlink).calls,
                                IF payload.send_email
                                THEN << TrialEmail(tr.email, code, lic.expires_at, ~emailFails) >>
                                ELSE << >>)
    /\ UNCHANGED << partner_requests, env, orders, payouts, partners, sessions, accepted, reqs >>

\* ------------------------------------------------------------------------
\* Specification: trial requests
\* ------------------------------------------------------------------------
\* The email and the message of a submitted trial request.
TrialSubmissions == { << "t@x", << >> >>, << "u@x", << "please" >> >> }

RejectReasons == { "", "spam" }

\* The payload of an issue and the clock, in hours, when it is served.
Issues ==
    { << [license_type |-> "SINGLE", max_guests |-> 10, duration_hours |-> 24,
          send_email |-> TRUE], 100 >>,
      << [license_type |-> "MUSEUM", max_guests |-> 500, duration_hours |-> 1,
          send_email |-> FALSE], 130 >> }

AirlinkCases ==
    { AirlinkAnswers(0, "ok"), AirlinkAnswers(max_attempts - 1, "ok"),
      AirlinkAnswers(max_attempts, "ok"), AirlinkAnswers(0, "error"),
      AirlinkAnswers(1, "invalid_url") }

AdminToken == Token(TRUE, TRUE, "admin", 1)

TrialTokens == { AdminToken, Token(TRUE, TRUE, "partner", 1) }

NextTrials ==
    \/ \E t \in TrialSubmissions, dbFails \in BOOLEAN :
          create_trial_request(t[1], t[2], dbFails)
    \/ \E token \in TrialTokens, trial_request_id \in 1..MaxTrialRequests,
          reason \in RejectReasons :
          /\ get_current_admin(token) # 0 => (trial_request_id = 1 /\ reason = "")
          /\ reject_trial_request(token, trial_request_id, reason)
    \/ \E token \in TrialTokens, trial_request_id \in 1..MaxTrialRequests,
          i \in Issues, airlink \in AirlinkCases, emailFails \in BOOLEAN :
          /\ get_current_admin(token) # 0 =>
                (trial_request_id = 1 /\ airlink = AirlinkAnswers(0, "ok") /\ i[2] = 100)
          /\ emailFails =>
                /\ get_current_admin(token) = 0
                /\ i[1].send_email
                /\ airlink_attempts(airlink).accepted # 0
          /\ issue_trial_request(token, trial_request_id, i[1], airlink, i[2], emailFails)

InitTrials == Init /\ env = [STRIPE_WEBHOOK_SECRET |-> TRUE, STRIPE_SECRET_KEY |-> TRUE]

SpecTrials == InitTrials /\ [][NextTrials]_vars

\* ------------------------------------------------------------------------
\* routers/auth_admin.py, routers/auth_partner.py, app/deps_partner.py,
\* routers/partner_me.py, routers/partner_portal.py: logins and the two
\* partner dependencies. A Token of kind "admin" carries sub "admin:<id>",
\* one of kind "partner" carries sub "<id>" (all digits).
\* ------------------------------------------------------------------------
\* Email of the rows of the admins table, all active.
AdminEmail(admin_id) == "root@vg"

AuthObs(op, http, resp, token, info) ==
    [Plain(op, http, resp, 0) EXCEPT !.info = << token >> \o info]

\* POST /admin/login; passwordOk is the answer of verify_password.
admin_login(email, passwordOk) ==
    LET found == { a \in Admins : AdminEmail(a) = email }
        noToken == Token(FALSE, FALSE, "", 0)
    IN
    /\ last' = IF found = {} THEN AuthObs("admin_login", 401, "bad_email", noToken, << >>)
               ELSE IF ~passwordOk
               THEN AuthObs("admin_login", 401, "bad_password", noToken, << >>)
               ELSE AuthObs("admin_login", 200, "bearer",
                            Token(TRUE, TRUE, "admin", FirstOf(found)), << >>)
    /\ UNCHANGED << partner_requests, trial_requests, env, orders, licenses, payouts,
                    partners, sessions, accepted, reqs >>

\* POST /partner/login
partner_login(email, referral_code) ==
    LET found == { p \in DOMAIN partners :
                      /\ partners[p].email = email
                      /\ partners[p].referral_code = referral_code
                      /\ partners[p].is_active }
    IN
    /\ last' = IF found = {}
               THEN AuthObs("partner_login", 401, "bad_credentials",
                            Token(FALSE, FALSE, "", 0), << >>)
               ELSE AuthObs("partner_login", 200, "bearer",
                            Token(TRUE, TRUE, "partner", FirstOf(found)), << >>)
    /\ UNCHANGED << partner_requests, trial_requests, env, orders, licenses, payouts,
                    partners, sessions, accepted, reqs >>

\* get_current_partner of routers/partner_me.py: HTTPBearer refuses a
\* missing header with 403; int(partner_id) is applied to any sub, and
\* raises on "admin:<id>".
me_get_current_partner(token) ==
    IF ~token.present THEN [http |-> 403, partner |-> 0]
    ELSE IF ~token.valid THEN [http |-> 401, partner |-> 0]
    ELSE IF token.kind # "partner" THEN [http |-> 500, partner |-> 0]
    ELSE IF token.id \notin DOMAIN partners \/ ~partners[token.id].is_active
    THEN [http |-> 401, partner |-> 0]
    ELSE [http |-> 0, partner |-> token.id]

\* get_current_partner of app/deps_partner.py: OAuth2PasswordBearer refuses
\* a missing header with 401.
get_current_partner(token) ==
    IF ~token.present THEN [http |-> 401, partner |-> 0]
    ELSE IF ~token.valid THEN [http |-> 401, partner |-> 0]
    ELSE IF token.kind # "partner" THEN [http |-> 401, partner |-> 0]
    ELSE IF token.id \notin DOMAIN partners \/ ~partners[token.id].is_active
    THEN [http |-> 401, partner |-> 0]
    ELSE [http |-> 0, partner |-> token.id]

\* GET /partner/me (partner_portal.py)
partner_me(token) ==
    /\ last' = IF get_current_partner(token).http # 0
               THEN AuthObs("partner_me", get_current_partner(token).http, "denied", token,
                            << 0 >>)
               ELSE AuthObs("partner_me", 200, "ok", token,
                            << get_current_partner(token).partner >>)
    /\ UNCHANGED << partner_requests, trial_requests, env, orders, licenses, payouts,
                    partners, sessions, accepted, reqs >>

\* GET /partner/me/orders (partner_me.py)
get_my_orders(token) ==
    /\ last' = IF me_get_current_partner(token).http # 0
               THEN AuthObs("get_my_orders", me_get_current_partner(token).http, "denied",
                            token, << 0 >>)
               ELSE AuthObs("get_my_orders", 200, "ok", token,
                            << me_get_current_partner(token).partner,
                               { o \in DOMAIN orders :
                                    orders[o].partner_id
                                       = me_get_current_partner(token).partner } >>)
    /\ UNCHANGED << partner_requests, trial_requests, env, orders, licenses, payouts,
                    partners, sessions, accepted, reqs >>

\* GET /admin/partners/{partner_id}
admin_get_partner_detail(token, partner_id) ==
    /\ last' = IF get_current_admin(token) # 0
               THEN AuthObs("admin_get_partner_detail", get_current_admin(token), "denied",
                            token, << 0 >>)
               ELSE IF partner_id \notin DOMAIN partners
               THEN AuthObs("admin_get_partner_detail", 404, "not_found", token, << 0 >>)
               ELSE AuthObs("admin_get_partner_detail", 200, "ok", token, << partner_id >>)
    /\ UNCHANGED << partner_requests, trial_requests, env, orders, licenses, payouts,
                    partners, sessions, accepted, reqs >>

\* ------------------------------------------------------------------------
\* Specification: logins and token-protected handlers
\* ------------------------------------------------------------------------
AuthTokens == Tokens \cup { Token(TRUE, TRUE, "partner", 2) }

LoginEmails == { "root@vg", "p@vg", "c@x" }

LoginCodes == { "VGP1", "VG-B" }

NextAuth ==
    \/ \E email \in LoginEmails, passwordOk \in BOOLEAN :
          admin_login(email, passwordOk)
    \/ \E email \in LoginEmails, referral_code \in LoginCodes :
          partner_login(email, referral_code)
    \/ \E payload \in PartnerPayloads :
          create_partner(payload)
    \/ \E token \in AuthTokens, partner_id \in 1..MaxPartners, is_active \in BOOLEAN :
          admin_set_partner_active(token, partner_id, is_active)
    \/ \E token \in AuthTokens, partner_id \in 1..MaxPartners :
          admin_get_partner_detail(token, partner_id)
    \/ \E token \in AuthTokens :
          partner_me(token)
    \/ \E token \in AuthTokens :
          get_my_orders(token)

InitAuth == Init /\ env = [STRIPE_WEBHOOK_SECRET |-> TRUE, STRIPE_SECRET_KEY |-> TRUE]

SpecAuth == InitAuth /\ [][NextAuth]_vars

\* ------------------------------------------------------------------------
\* Specification: fulfill_paid_order called on any stored order, PAID or
\* not, next to the checkout and webhook requests that create and pay orders
\* ------------------------------------------------------------------------
\* One call fulfill_paid_order(db, order) in a session of its own, for the
\* order row oid as it is stored; failAt is the unit whose AirLink call
\* fails.  The session is closed after the call.
fulfill_paid_order_call(oid, failAt) ==
    /\ oid \in DOMAIN orders
    /\ LET f == fulfill_paid_order(DB, orders[oid], oid, failAt, NoFault)
       IN /\ failAt # 0 => f.res.calls # << >> /\ f.res.outcome = "raised"
          /\ request_done(
                [db |-> IF f.res.outcome = "raised" THEN get_db_close(f.db, f.res) ELSE f.db,
                 obs |-> Obs("fulfill_paid_order", 0, "", oid,
                             orders[oid].payment_status = "PAID",
                             ObsOfResult(f.res), NoEvent)])

NextFulfil ==
    \/ \E product \in Products, partner_code \in PartnerCodes :
          create_order_real(product, partner_code)
    \/ \E ev \in ShopEvents, failAt \in 0..MaxUnits :
          stripe_webhook(ev, failAt)
    \/ \E oid \in 1..MaxOrders, failAt \in 0..MaxUnits :
          fulfill_paid_order_call(oid, failAt)

SpecFulfil == InitShop /\ [][NextFulfil]_vars

\* ------------------------------------------------------------------------
\* Properties
\* ------------------------------------------------------------------------
\* The License rows of order o, with their ids.
LicRows(o) ==
    { << i, licenses[i] >> : i \in { j \in DOMAIN licenses : licenses[j].order_id = o } }

PayoutRows(o) ==
    { << i, payouts[i] >> : i \in { j \in DOMAIN payouts : payouts[j].order_id = o } }

\* The number of License rows a fulfilled order has.
FullCount(o) == orders[o].quantity * Packages[orders[o].package_id].num_licenses

\* The step is a webhook delivery that resolved order o and was let through
\* (answered status "PAID").
AcceptedDelivery(o) ==
    /\ last'.op = "webhook"
    /\ last'.resp = "PAID"
    /\ last'.order_id = o

\* C1: once an order has License rows, no later step (so no later delivery
\* of the payment event) adds, removes or changes a License row of that
\* order: the rows of an order are created by at most one delivery.
C1_LicensesCreatedByOneDelivery ==
    [][\A o \in DOMAIN orders : LicRows(o) # {} => LicRows(o)' = LicRows(o)]_vars

C1_Witness ==
    /\ last.op = "webhook"
    /\ last.outcome = "already_fulfilled"
    /\ LicRows(last.order_id) # {}

\* C2: no step, and so no delivery of a checkout.session.completed event,
\* changes the total_amount stored for an order when it was created.
C2_TotalAmountNeverChanges ==
    [][\A o \in DOMAIN orders : orders'[o].total_amount = orders[o].total_amount]_vars

\* C3: a checkout.session.completed delivery resolved to order o whose
\* integer amount_total differs from o's total in cents is answered
\* "ignored: amount_mismatch", does not invoke fulfilment and leaves every
\* order (so a PENDING order PENDING), License and PartnerPayout as it was.
C3_AmountMismatchIgnored ==
    [][\A o \in DOMAIN orders :
          ( /\ last'.op = "webhook"
            /\ last'.http = 200
            /\ last'.ev.type = "checkout.session.completed"
            /\ last'.order_id = o
            /\ last'.ev.amount_total # NoAmount
            /\ last'.ev.amount_total # Money2(orders[o].total_amount, 1) )
          => ( /\ last'.resp = "ignored_amount_mismatch"
               /\ last'.outcome = "not_invoked"
               /\ orders' = orders
               /\ licenses' = licenses
               /\ payouts' = payouts )]_vars

C3_Witness ==
    /\ last.op = "webhook"
    /\ last.resp = "ignored_amount_mismatch"
    /\ orders[last.order_id].payment_status = "PENDING"
    /\ LicRows(last.order_id) = {}

\* C4: the first accepted delivery for an order finds it PENDING, sets it
\* PAID and reports was_already_paid = false; every later accepted delivery
\* reports was_already_paid = true and writes no payment field; a PAID
\* order never leaves PAID.
C4_PaidTransitionOnce ==
    [][\A o \in DOMAIN orders :
          /\ orders[o].payment_status = "PAID" => orders'[o].payment_status = "PAID"
          /\ AcceptedDelivery(o) =>
                /\ last'.was_already_paid = (o \in accepted)
                /\ orders'[o].payment_status = "PAID"
                /\ o \notin accepted => orders[o].payment_status = "PENDING"
                /\ o \in accepted =>
                      /\ orders'[o].payment_status = orders[o].payment_status
                      /\ orders'[o].payment_method = orders[o].payment_method]_vars

C4_Witness ==
    /\ last.op = "webhook"
    /\ last.resp = "PAID"
    /\ last.was_already_paid
    /\ orders[last.order_id].payment_status = "PAID"

\* C5: when two requests have handled the same payment event for order o
\* concurrently and o has License rows, o has exactly one set of rows
\* (quantity x package.num_licenses) and at most one PartnerPayout.
C5_ConcurrentDeliveriesOneSet ==
    \A o \in DOMAIN orders :
        ( /\ \A r \in DOMAIN reqs : reqs[r].pc = "done" /\ reqs[r].oid = o
          /\ reqs[1].ev = reqs[2].ev
          /\ LicRows(o) # {} )
        => ( /\ Cardinality(LicRows(o)) = FullCount(o)
             /\ Cardinality(PayoutRows(o)) <= 1 )

UnsignedDelivery ==
    /\ last'.op = "webhook"
    /\ last'.ev.sig # "ok"

\* C6 as stated: a request without a Stripe-Signature header or with a
\* signature that fails verification is answered 400 and changes nothing.
C6_UnsignedAnswered400 ==
    [][UnsignedDelivery =>
          (last'.http = 400 /\ UNCHANGED dbvars)]_vars

\* C6 amended: such a request is answered 400 when STRIPE_WEBHOOK_SECRET is
\* configured and 500 when it is not; in both cases no order is resolved,
\* fulfilment is not invoked and every Order, License and PartnerPayout is
\* unchanged.
C6_UnsignedChangesNothing ==
    [][UnsignedDelivery =>
          /\ last'.http = IF env.STRIPE_WEBHOOK_SECRET THEN 400 ELSE 500
          /\ last'.order_id = 0
          /\ last'.outcome = "not_invoked"
          /\ UNCHANGED dbvars]_vars

C6_Witness ==
    /\ last.op = "webhook"
    /\ last.ev.sig = "bad"
    /\ last.ev.order_id_raw \in DOMAIN orders
    /\ last.http = 400
    /\ orders[last.ev.order_id_raw].payment_status = "PENDING"

\* C7: a verified checkout.session.completed event without a usable
\* metadata.order_id, carrying the id of a session that
\* create_stripe_checkout_session created for an order, is resolved to that
\* order, which is then PAID.
C7_ResolvedBySessionId ==
    ( /\ last.op = "webhook"
      /\ last.http = 200
      /\ last.ev.type = "checkout.session.completed"
      /\ last.ev.order_id_raw \notin DOMAIN orders
      /\ last.ev.session_id \in DOMAIN sessions )
    => ( /\ last.order_id = sessions[last.ev.session_id].order_id
         /\ orders[last.order_id].payment_status = "PAID" )

\* C8: every accepted delivery invokes fulfilment; when the order was
\* already PAID and had no License row, and no AirLink call of the delivery
\* fails, the order has its full set of License rows afterwards.
C8_ReplayFulfilsPaidOrder ==
    [][\A o \in DOMAIN orders :
          AcceptedDelivery(o) =>
             /\ last'.outcome # "not_invoked"
             /\ ( /\ orders[o].payment_status = "PAID"
                  /\ LicRows(o) = {}
                  /\ ~(last'.outcome = "raised" /\ last'.calls # << >>) )
                => Cardinality(LicRows(o)') = FullCount(o)]_vars

C8_Witness ==
    /\ last.op = "webhook"
    /\ last.was_already_paid
    /\ last.outcome = "fulfilled"
    /\ Cardinality(LicRows(last.order_id)) = FullCount(last.order_id)

\* C9: fulfilment of a PAID order that has License rows creates no License
\* and no PartnerPayout, makes no AirLink call, leaves the order as it was,
\* attempts one email with the code of the order's first License row and
\* no product, and returns "already_fulfilled" with the existing codes.
C9_AlreadyFulfilledIsNoOp ==
    [][\A o \in DOMAIN orders :
          ( /\ AcceptedDelivery(o)
            /\ orders[o].payment_status = "PAID"
            /\ LicRows(o) # {} )
          => LET ids == { j \in DOMAIN licenses : licenses[j].order_id = o }
                 first == CHOOSE j \in ids : \A k \in ids : j <= k
             IN /\ last'.outcome = "already_fulfilled"
                /\ licenses' = licenses
                /\ payouts' = payouts
                /\ orders' = orders
                /\ last'.calls = << >>
                /\ Len(last'.emails) = 1
                /\ last'.emails[1].order_id = o
                /\ last'.emails[1].license_code = licenses[first].code
                /\ last'.emails[1].product = << >>
                /\ Len(last'.codes) = Cardinality(ids)
                /\ \A a, b \in DOMAIN last'.codes : a < b =>
                      \E j, k \in ids : /\ j < k
                                        /\ licenses[j].code = last'.codes[a]
                                        /\ licenses[k].code = last'.codes[b]]_vars

C9_Witness ==
    /\ last.op = "webhook"
    /\ last.outcome = "already_fulfilled"
    /\ Len(last.codes) > 1
    /\ Len(last.emails) = 1
    /\ PayoutRows(last.order_id) # {}

\* C10: a delivery whose fulfilment returns "fulfilled" for order o appends
\* exactly quantity x package.num_licenses License rows, all linked to o,
\* with the package's max_guests and the type mapped from the order type,
\* makes one AirLink call per row with that row's code, and leaves o with
\* exactly those rows; for SINGLE_25 this is one row.
C10_FulfilmentCreatesFullSet ==
    [][\A o \in DOMAIN orders :
          (AcceptedDelivery(o) /\ last'.outcome = "fulfilled")
          => LET pkg == Packages[orders[o].package_id]
                 n == orders[o].quantity * pkg.num_licenses
                 new == (Len(licenses) + 1)..Len(licenses')
                 type == CASE orders[o].order_type = "SINGLE" -> "SINGLE"
                           [] orders[o].order_type = "PACKAGE_TO" -> "TO"
                           [] orders[o].order_type = "PACKAGE_SCHOOL" -> "SCHOOL"
                           [] OTHER -> "none"
             IN /\ Len(licenses') = Len(licenses) + n
                /\ SubSeq(licenses', 1, Len(licenses)) = licenses
                /\ \A i \in new :
                      /\ licenses'[i].order_id = o
                      /\ licenses'[i].max_guests = pkg.max_guests
                      /\ licenses'[i].license_type = type
                      /\ last'.calls[i - Len(licenses)] = licenses'[i].code
                /\ Len(last'.calls) = n
                /\ \A i, j \in DOMAIN licenses' : i # j => licenses'[i].code # licenses'[j].code
                /\ Cardinality(LicRows(o)') = n
                /\ (pkg.package_type = "SINGLE" /\ pkg.max_guests = 25) => n = 1]_vars

C10_Witness ==
    /\ last.op = "webhook"
    /\ last.outcome = "fulfilled"
    /\ orders[last.order_id].order_type = "PACKAGE_TO"
    /\ Cardinality(LicRows(last.order_id)) = ToNumLicenses
    /\ Len(last.calls) = ToNumLicenses

\* The step is a webhook delivery that resolved order o and went on to
\* fulfilment, whatever it answered.
FulfilmentInvoked(o) ==
    /\ last'.op = "webhook"
    /\ last'.order_id = o
    /\ last'.outcome \notin { "not_invoked" }

\* C11: when the PartnerPayout of a referred order cannot be created or
\* cannot be persisted during fulfilment, and no AirLink call fails, the
\* order still ends with its full set of License rows and fulfilment
\* returns "fulfilled".
C11_PayoutFailureKeepsLicenses ==
    [][\A o \in DOMAIN orders :
          (FulfilmentInvoked(o) /\ last'.fault.payout # "none")
          => ( /\ last'.outcome = "fulfilled"
               /\ Cardinality(LicRows(o)') = FullCount(o) )]_vars

\* C12: a confirmation email that fails, in the first fulfilment or in a
\* replay, is not raised: fulfilment returns "fulfilled" or
\* "already_fulfilled" with the codes of the order's License rows, the
\* webhook answers 200, and the rows committed before the send stay: a
\* replay leaves orders, licenses and payouts as they were; a first
\* fulfilment leaves the full set of License rows, the order amounts of the
\* breakdown and the payout of the referred order.
C12_EmailFailureChangesNothing ==
    [][\A o \in DOMAIN orders :
          (FulfilmentInvoked(o) /\ last'.fault.email)
          => /\ last'.http = 200
             /\ Len(last'.emails) = 1
             /\ ~last'.emails[1].delivered
             /\ last'.outcome = IF LicRows(o) # {} THEN "already_fulfilled" ELSE "fulfilled"
             /\ { last'.codes[k] : k \in DOMAIN last'.codes }
                   = { r[2].code : r \in LicRows(o)' }
             /\ last'.outcome = "already_fulfilled" =>
                   /\ orders' = orders
                   /\ licenses' = licenses
                   /\ payouts' = payouts
             /\ last'.outcome = "fulfilled" =>
                   /\ Cardinality(LicRows(o)') = FullCount(o)
                   /\ orders'[o].payment_status = "PAID"
                   /\ orders'[o].total_amount =
                         orders'[o].subtotal_amount - orders'[o].discount_amount
                   /\ (orders'[o].partner_id # 0 /\ last'.fault.payout = "none")
                         => Cardinality(PayoutRows(o)') = 1]_vars

C12_Witness ==
    /\ last.op = "webhook"
    /\ last.fault.email
    /\ last.outcome = "already_fulfilled"
    /\ ~last.emails[1].delivered
    /\ LicRows(last.order_id) # {}
    /\ PayoutRows(last.order_id) # {}

\* C13: when fulfilment raises during a webhook delivery (an AirLink call
\* fails, the order has no usable package, the commit fails), the handler
\* answers 200 with status "PAID", the order is PAID afterwards with the
\* payment columns it was committed with, and no License or PartnerPayout
\* row is written.
C13_FulfilmentErrorSwallowed ==
    [][\A o \in DOMAIN orders :
          (FulfilmentInvoked(o) /\ last'.outcome = "raised")
          => /\ last'.http = 200
             /\ last'.resp = "PAID"
             /\ orders'[o] = mark_paid(orders[o])
             /\ orders'[o].payment_status = "PAID"
             /\ \A q \in DOMAIN orders : q # o => orders'[q] = orders[q]
             /\ licenses' = licenses
             /\ payouts' = payouts]_vars

C13_Witness ==
    /\ last.op = "webhook"
    /\ last.outcome = "raised"
    /\ last.calls # << >>
    /\ ~last.was_already_paid
    /\ orders[last.order_id].payment_status = "PAID"
    /\ LicRows(last.order_id) = {}

\* C14: every step that adds PartnerPayout rows (webhook fulfilment,
\* /purchase/single, /purchase/package, /admin/payouts/create) adds at most
\* one, unpaid, whose amount is the order's stored total_amount times the
\* partner's commission_pct of that moment / 100 rounded half-up to the
\* cent, whatever amount the admin payload carries; older rows are kept.
C14_PayoutIsCommissionOfStoredTotal ==
    [][/\ Len(payouts') \in { Len(payouts), Len(payouts) + 1 }
       /\ SubSeq(payouts', 1, Len(payouts)) = payouts
       /\ Len(payouts') > Len(payouts) =>
             LET p == payouts'[Len(payouts')]
             IN /\ p.order_id \in DOMAIN orders'
                /\ p.partner_id \in DOMAIN partners
                /\ ~p.paid
                /\ 100 * p.amount - 50 <=
                      orders'[p.order_id].total_amount * partners[p.partner_id].commission_pct
                /\ orders'[p.order_id].total_amount * partners[p.partner_id].commission_pct
                      < 100 * p.amount + 50
                /\ last'.op \in { "webhook", "purchase_single", "purchase_package",
                                  "create_payout" }]_vars

C14_Witness ==
    /\ last.op = "create_payout"
    /\ last.http = 200
    /\ payouts # << >>
    /\ last.info[1] # payouts[Len(payouts)].amount
    /\ partners[payouts[Len(payouts)].partner_id].commission_pct = 15

\* C19: a successful POST /checkout/create-order appends exactly one Order:
\* PENDING, quantity 1, no partner_id, package_id the active package the
\* product code names (type, and max_guests for SINGLE_n or num_licenses for
\* PACKAGE_x_n), subtotal = that package's price, total = subtotal - discount
\* > 0; without a referral code discount = 0 and total = subtotal; no License
\* and no PartnerPayout row is written and the older orders are untouched.
C19_CreateOrderStoresPendingOrder ==
    [][(last'.op = "create_order" /\ last'.http = 200)
       => /\ Len(orders') = Len(orders) + 1
          /\ SubSeq(orders', 1, Len(orders)) = orders
          /\ last'.order_id = Len(orders')
          /\ licenses' = licenses
          /\ payouts' = payouts
          /\ LET o == orders'[Len(orders')]
                 product == last'.info[1]
             IN /\ o.payment_status = "PENDING"
                /\ o.quantity = 1
                /\ o.partner_id = 0
                /\ o.package_id \in DOMAIN Packages
                /\ LET pkg == Packages[o.package_id]
                   IN /\ pkg.is_active
                      /\ product.kind = "SINGLE" =>
                            /\ o.order_type = "SINGLE"
                            /\ pkg.package_type = "SINGLE"
                            /\ pkg.num_licenses = 1
                            /\ pkg.max_guests = product.n
                      /\ product.kind = "PACKAGE_TO" =>
                            /\ o.order_type = "PACKAGE_TO"
                            /\ pkg.package_type = "TO"
                            /\ pkg.num_licenses = product.n
                      /\ product.kind = "PACKAGE_SCHOOL" =>
                            /\ o.order_type = "PACKAGE_SCHOOL"
                            /\ pkg.package_type = "SCHOOL"
                            /\ pkg.num_licenses = product.n
                      /\ product.kind \in { "SINGLE", "PACKAGE_TO", "PACKAGE_SCHOOL" }
                      /\ o.subtotal_amount = pkg.price
                /\ o.total_amount = o.subtotal_amount - o.discount_amount
                /\ o.total_amount > 0
                /\ o.referral_code = "" =>
                      /\ o.discount_amount = 0
                      /\ o.total_amount = o.subtotal_amount]_vars

C19_Witness ==
    /\ last.op = "create_order"
    /\ last.http = 200
    /\ last.info = << [kind |-> "SINGLE", n |-> 25] >>
    /\ orders[last.order_id].referral_code = ""
    /\ orders[last.order_id].total_amount = 1499
    /\ orders[last.order_id].payment_status = "PENDING"

\* The step is an approval of request r that was answered http.
Approval(r, http) ==
    /\ last'.op = "approve_partner_request"
    /\ last'.info[1] = r
    /\ last'.http = http

\* No two Partner rows of ps share a referral code.
ReferralCodesDistinct(ps) ==
    \A i, j \in DOMAIN ps : ps[i].referral_code = ps[j].referral_code => i = j

C16_NonPendingRequestIsFinal ==
    [][\A r \in DOMAIN partner_requests :
          partner_requests[r].status \in { "APPROVED", "REJECTED" }
          => /\ partner_requests'[r] = partner_requests[r]
             /\ (/\ last'.op \in { "approve_partner_request", "reject_partner_request" }
                 /\ last'.info[1] = r)
                => /\ last'.http = 400
                   /\ partners' = partners
                   /\ partner_requests' = partner_requests
                   /\ last'.emails = << >>]_vars

C16_Witness ==
    /\ last.op = "approve_partner_request"
    /\ last.http = 400
    /\ last.resp = "not_pending"
    /\ partner_requests[last.info[1]].status = "APPROVED"
    /\ Cardinality({ p \in DOMAIN partners :
                        partners[p].email = partner_requests[last.info[1]].email }) = 1

\* C20: the Partner created by an approval has partner_type = the tier
\* chosen at approval (the tier parameter when given, else the request's
\* partner_tier, unknown values counting as BASE) and, without a
\* commission_pct override, that tier's default commission; an override
\* outside 0..100 is answered 400, the request stays PENDING and no Partner
\* is created.
C20_ApprovedPartnerCarriesChosenTier ==
    [][\A r \in DOMAIN partner_requests :
          LET tier == last'.info[2]
              commission_pct == last'.info[3]
              chosen == IF tier # "" THEN normalize_tier(tier)
                        ELSE normalize_tier(partner_requests[r].partner_tier)
          IN /\ Approval(r, 200) =>
                   /\ partners'[Len(partners')].partner_type = chosen
                   /\ commission_pct = NoPct =>
                         partners'[Len(partners')].commission_pct
                            = TIER_DEFAULT_COMMISSION(chosen)
             /\ (/\ last'.op = "approve_partner_request"
                 /\ last'.info[1] = r
                 /\ partner_requests[r].status = "PENDING"
                 /\ commission_pct # NoPct
                 /\ (commission_pct < 0 \/ commission_pct > 100)) =>
                   /\ last'.http = 400
                   /\ partner_requests'[r].status = "PENDING"
                   /\ partners' = partners]_vars

\* The step is the admin operation op on trial request r.
TrialOp(op, r) ==
    /\ last'.op = op
    /\ last'.info[1] = r

\* The License rows issued without an order to email e.
TrialLicenses(ls, e) ==
    { i \in DOMAIN ls : ls[i].order_id = 0 /\ ls[i].issued_to_email = e }

\* The ISSUED trial requests of email e.
IssuedRequests(ts, e) ==
    { r \in DOMAIN ts : ts[r].status = "ISSUED" /\ ts[r].email = e }

\* C17: a TrialRequest that is ISSUED or REJECTED is never changed again;
\* issuing or rejecting it is refused (400 for an admin, 401/403 otherwise)
\* without any AirLink call and without creating a License; over any
\* sequence of operations there are exactly as many trial licenses for an
\* email as ISSUED requests of that email, so a request yields at most one.
C17_NonPendingTrialIsFinal ==
    [][/\ \A r \in DOMAIN trial_requests :
             trial_requests[r].status \in { "ISSUED", "REJECTED" }
             => /\ trial_requests'[r] = trial_requests[r]
                /\ (TrialOp("issue_trial_request", r) \/ TrialOp("reject_trial_request", r))
                   => /\ last'.http = IF get_current_admin(last'.info[2]) = 0 THEN 400
                                      ELSE get_current_admin(last'.info[2])
                      /\ last'.calls = << >>
                      /\ last'.emails = << >>
                      /\ licenses' = licenses
                      /\ trial_requests' = trial_requests
       /\ \A r \in DOMAIN trial_requests' :
             Cardinality(TrialLicenses(licenses', trial_requests'[r].email))
                = Cardinality(IssuedRequests(trial_requests', trial_requests'[r].email))]_vars

C17_Witness ==
    /\ last.op = "issue_trial_request"
    /\ last.http = 400
    /\ last.resp = "not_pending"
    /\ trial_requests[last.info[1]].status = "ISSUED"
    /\ Cardinality(TrialLicenses(licenses, trial_requests[last.info[1]].email)) = 1

\* C18: a TrialRequest becomes ISSUED only in an issue step on it that
\* appends exactly one License with order_id NULL, issued_to_email = the
\* request's email, duration_hours of the payload and expires_at = the time
\* of the issue + duration_hours, and writes no Order or PartnerPayout; a
\* License appears in no other step; when AirLink fails the answer is 502,
\* when all 8 candidate codes collide it is 500, and in both cases the
\* request stays PENDING and no License is created.
C18_IssueCreatesOneTrialLicense ==
    [][/\ \A r \in DOMAIN trial_requests' :
             (/\ trial_requests'[r].status = "ISSUED"
              /\ (r \in DOMAIN trial_requests => trial_requests[r].status # "ISSUED"))
             => /\ r \in DOMAIN trial_requests
                /\ trial_requests[r].status = "PENDING"
                /\ TrialOp("issue_trial_request", r)
                /\ last'.http = 200
                /\ Len(licenses') = Len(licenses) + 1
                /\ SubSeq(licenses', 1, Len(licenses)) = licenses
                /\ LET lic == licenses'[Len(licenses')]
                       payload == last'.info[3]
                       now == last'.info[4]
                   IN /\ lic.order_id = 0
                      /\ lic.issued_to_email = trial_requests[r].email
                      /\ lic.duration_hours = payload.duration_hours
                      /\ lic.expires_at = now + payload.duration_hours
                      /\ lic.license_type = payload.license_type
                      /\ \A i \in DOMAIN licenses : licenses[i].code # lic.code
                /\ orders' = orders
                /\ payouts' = payouts
       /\ licenses' # licenses =>
             \E r \in DOMAIN trial_requests :
                /\ trial_requests[r].status = "PENDING"
                /\ trial_requests'[r].status = "ISSUED"
       /\ \A r \in DOMAIN trial_requests :
             (/\ TrialOp("issue_trial_request", r)
              /\ get_current_admin(last'.info[2]) = 0
              /\ trial_requests[r].status = "PENDING")
             => /\ (\E k \in DOMAIN last'.calls : last'.calls[k] = "error") =>
                      last'.http = 502
                /\ (Len(last'.calls) = 8
                    /\ \A k \in DOMAIN last'.calls : last'.calls[k] = "CODE_EXISTS") =>
                      last'.http = 500
                /\ last'.http \in { 500, 502 } =>
                      /\ trial_requests' = trial_requests
                      /\ licenses' = licenses]_vars

C18_Witness ==
    /\ last.op = "issue_trial_request"
    /\ last.http = 200
    /\ Len(last.calls) = 8
    /\ trial_requests[last.info[1]].status = "ISSUED"
    /\ trial_requests[last.info[1]].email = "u@x"
    /\ Len(licenses) = 1
    /\ licenses[1].issued_to_email = "u@x"
    /\ licenses[1].expires_at = 124
    /\ licenses[1].order_id = 0

\* The step is a call of a handler behind get_current_admin.
AdminProtectedCall ==
    last'.op \in { "set_partner_active", "admin_get_partner_detail" }

\* The step is a call of a handler behind one of the get_current_partner
\* dependencies.
PartnerProtectedCall ==
    last'.op \in { "partner_me", "get_my_orders" }

\* C21: a token of partner login presented to a handler behind
\* get_current_admin, and a token of admin login presented to a handler
\* behind either get_current_partner, is answered 401 or 403 and the
\* tables are left as they were.
C21_TokenNamespacesDisjoint ==
    [][LET token == last'.info[1]
       IN /\ (AdminProtectedCall /\ token.valid /\ token.kind = "partner")
             => (last'.http \in { 401, 403 } /\ UNCHANGED dbvars)
          /\ (PartnerProtectedCall /\ token.valid /\ token.kind = "admin")
             => (last'.http \in { 401, 403 } /\ UNCHANGED dbvars)]_vars

\* The addresses of the model in lower case, and the lower case of each
\* address a payload may carry.
LowerCased(raw_email) ==
    IF raw_email \in { "a@x", "A@X", " a@x" } THEN "a@x" ELSE "p@vg"

\* C22: POST /partner-requests for an email that, lower-cased, already has
\* a PartnerRequest row (PENDING, APPROVED or REJECTED) is answered 409 and
\* adds no row; every stored email is lower-cased and no two rows, so no
\* two PENDING rows, share an email.
C22_OneRequestPerEmail ==
    [][/\ last'.op = "create_partner_request" =>
             LET e == LowerCased(last'.info[2])
             IN IF \E r \in DOMAIN partner_requests : partner_requests[r].email = e
                THEN /\ last'.http = 409
                     /\ partner_requests' = partner_requests
                ELSE /\ last'.http = 200
                     /\ partner_requests' =
                           Append(partner_requests,
                                  [partner_requests'[Len(partner_requests')]
                                      EXCEPT !.email = e, !.status = "PENDING"])
       /\ \A r \in DOMAIN partner_requests' :
             partner_requests'[r].email \in { "a@x", "p@vg" }
       /\ \A q, r \in DOMAIN partner_requests' :
             (/\ partner_requests'[q].email = partner_requests'[r].email
              /\ partner_requests'[q].status = "PENDING"
              /\ partner_requests'[r].status = "PENDING") => q = r]_vars

C22_Witness ==
    /\ last.op = "create_partner_request"
    /\ last.http = 409
    /\ last.resp = "already_exists"
    /\ last.info[2] = "A@X"
    /\ \E r \in DOMAIN partner_requests :
          /\ partner_requests[r].email = "a@x"
          /\ partner_requests[r].status = "REJECTED"

\* C23: whenever a step writes the discount of an order (the order is
\* created, or fulfilment recomputes its breakdown) and the discount is not
\* zero, the order's referral code is that of a Partner that is active at
\* that moment.
C23_DiscountOnlyForActivePartner ==
    [][\A o \in DOMAIN orders' :
          (/\ o \in DOMAIN orders => orders'[o].discount_amount # orders[o].discount_amount
           /\ orders'[o].discount_amount # 0)
          => get_active_partner_by_code(DB, orders'[o].referral_code) # 0]_vars

\* C24: an order never has more than one PartnerPayout, and a call of
\* /admin/payouts/create that is answered with 409 (a payout of the partner
\* for the order exists) or 400 (the order is not the partner's) adds no
\* PartnerPayout row.
C24_AtMostOnePayoutPerOrder ==
    /\ [](\A o \in DOMAIN orders : Cardinality(PayoutRows(o)) <= 1)
    /\ [][(/\ last'.op = "create_payout"
            /\ last' # last
            /\ last'.http \in { 400, 409 })
           => payouts' = payouts]_vars

C24_Witness ==
    /\ last.op = "create_payout"
    /\ last.http = 409
    /\ last.resp = "payout_exists"
    /\ \E o \in DOMAIN orders : Cardinality(PayoutRows(o)) = 1

\* C25: every License row with an order_id belongs to an Order that is PAID,
\* and a call of fulfill_paid_order on an order that is not PAID raises and
\* leaves orders, licenses and payouts as they were.
C25_LicensesOnlyForPaidOrders ==
    /\ [](\A l \in DOMAIN licenses :
            licenses[l].order_id # 0
            => /\ licenses[l].order_id \in DOMAIN orders
               /\ orders[licenses[l].order_id].payment_status = "PAID")
    /\ [][(/\ last'.op = "fulfill_paid_order"
            /\ last' # last
            /\ orders[last'.order_id].payment_status # "PAID")
           => /\ last'.outcome = "raised"
              /\ last'.calls = << >>
              /\ last'.emails = << >>
              /\ UNCHANGED dbvars]_vars

C25_Witness ==
    /\ last.op = "fulfill_paid_order"
    /\ last.outcome = "raised"
    /\ last.calls = << >>
    /\ orders[last.order_id].payment_status = "PENDING"
    /\ ~last.was_already_paid

\* C26: a webhook delivery that moves an order to PAID, or invokes
\* fulfilment for it, carries an integer amount_total equal to the order's
\* total_amount in cents.
C26_PaidOnlyOnMatchingAmount ==
    [][\A o \in DOMAIN orders :
          (/\ last'.op = "webhook"
           /\ last' # last
           /\ last'.order_id = o
           /\ \/ (orders[o].payment_status # "PAID" /\ orders'[o].payment_status = "PAID")
              \/ last'.outcome # "not_invoked")
          => last'.ev.amount_total = eur_to_cents(orders[o].total_amount)]_vars

\* C27: the License rows of an order are none or all of them (quantity x
\* num_licenses of its package, quantity for an order of /purchase/*); a
\* request in which the license API call of some unit fails leaves the order
\* without License rows, and, when the request is a webhook delivery, leaves
\* the order's amounts, partner_id and PartnerPayout rows as they were.
C27_LicensesAllOrNothing ==
    /\ [](\A o \in DOMAIN orders :
            Cardinality(LicRows(o)) \in
                { 0, IF orders[o].package_id = 0 THEN orders[o].quantity ELSE FullCount(o) })
    /\ [][\A o \in DOMAIN orders' :
            (/\ last' # last
             /\ last'.order_id = o
             /\ last'.calls # << >>
             /\ \/ last'.op \in { "purchase_single", "purchase_package" } /\ last'.http = 502
                \/ /\ last'.op = "webhook"
                   /\ last'.outcome = "raised"
                   /\ last'.fault.payout = "none")
            => /\ LicRows(o)' = {}
               /\ last'.op = "webhook"
                  => /\ orders'[o].subtotal_amount = orders[o].subtotal_amount
                     /\ orders'[o].discount_amount = orders[o].discount_amount
                     /\ orders'[o].total_amount = orders[o].total_amount
                     /\ orders'[o].estimated_agora_cost = orders[o].estimated_agora_cost
                     /\ orders'[o].partner_id = orders[o].partner_id
                     /\ payouts' = payouts]_vars

C27_Witness ==
    /\ last.op = "webhook"
    /\ last.outcome = "raised"
    /\ Len(last.calls) = 2
    /\ orders[last.order_id].referral_code = "VGP1"
    /\ orders[last.order_id].partner_id = 0
    /\ orders[last.order_id].estimated_agora_cost = NoAmount
    /\ LicRows(last.order_id) = {}
    /\ PayoutRows(last.order_id) = {}

\* C28: a /purchase/single or /purchase/package request answered with 502
\* because a license API call failed adds no Order, no PartnerPayout and no
\* License: the tables are as they were before the request.
C28_FailedPurchaseLeavesNoTrace ==
    [][(/\ last'.op \in { "purchase_single", "purchase_package" }
        /\ last' # last
        /\ last'.http = 502)
       => /\ orders' = orders
          /\ payouts' = payouts
          /\ licenses' = licenses]_vars

\* C29: every Order row has total_amount > 0.
C29_OrderTotalPositive ==
    \A o \in DOMAIN orders : orders[o].total_amount > 0

\* C30: a step that changes the status of a PartnerRequest, or adds a
\* Partner in a call of /admin/partner-requests/{id}/approve, is a request
\* that presents a valid admin bearer token.
C30_RequestDecidedOnlyByAdmin ==
    [][(/\ last'.op \in { "approve_partner_request", "reject_partner_request" }
        /\ last' # last
        /\ \/ \E r \in DOMAIN partner_requests :
                 partner_requests'[r].status # partner_requests[r].status
           \/ partners' # partners)
       => get_current_admin(last'.info[Len(last'.info)]) = 0]_vars
====
